---- MODULE Spec2Model ----
(***************************************************************************)
(* AABot: the encrypted configuration store (EncryptionService,            *)
(* DatabaseStorage.{get,create,update}BotConfiguration) and the HTTP       *)
(* routes of /api/bot/config that drive it, as a state machine.            *)
(*                                                                         *)
(* The bot_configurations table is a sequence of rows in physical (heap)   *)
(* order.  Every `await` on a database statement is a scheduling point, so *)
(* updateBotConfiguration is modelled by one action per statement and the  *)
(* requests of several clients interleave between them.                    *)
(***************************************************************************)
EXTENDS Integers, Sequences, FiniteSets, TLC

(***************************************************************************)
(* Bounds of the model.                                                    *)
(***************************************************************************)
\* rows the table may hold (the code itself never limits the inserts)
MaxRows == 2
\* distinct salts generateSalt may hand out while others are still in use
MaxSalts == 4
\* distinct initialization vectors randomBytes(IV_LENGTH) may return
MaxIV == 1
\* last instant of the wall clock read by `new Date()`
MaxTime == 1
\* request handlers that may be in flight at the same time
NumCalls == 2
\* requests served in one run
MaxRequests == 4

Calls == 1..NumCalls
IVs == 1..MaxIV
Salts == 1..MaxSalts

VARIABLES
    table,   \* bot_configurations: sequence of rows, in heap order
    calls,   \* per in-flight request: handler, position, locals, outcome
    now,     \* the wall clock
    served,  \* requests accepted so far
    cipher,  \* the EncryptionService call of a unit under test, see below
    socket,  \* the SocketModeService instance, its clients and its callers
    slash,   \* slash_commands events in flight and the slack_commands table
    analytics, \* the bot_analytics table and the vote requests in flight
    startup, \* waitForDatabaseReady and the server.listen callback
    log      \* the data handed to the loggers and the lines they wrote

serviceVars == <<socket, slash, analytics, startup, log>>

vars == <<table, calls, now, served, cipher,
          socket, slash, analytics, startup, log>>

\* nothing of the Slack service, the analytics, the startup sequence or the
\* loggers has run
NoService == [op |-> "none"]

InitService ==
    /\ socket = NoService
    /\ slash = NoService
    /\ analytics = NoService
    /\ startup = NoService
    /\ log = NoService

(***************************************************************************)
(* shared/schema.ts and the ConfigurationUpdate interface.                 *)
(***************************************************************************)
SensitiveFields ==
    {"apacheAnswerApiUrl", "apacheAnswerApiKey", "slackBotToken",
     "slackAppToken", "slackChannelId", "slackSigningSecret"}

PlainFields == {"workspaceName", "searchLimit", "enableVoting"}

ConfigurationUpdate == PlainFields \cup SensitiveFields

botConfigurations ==
    {"id", "createdAt", "updatedAt", "encryptionSalt"} \cup ConfigurationUpdate

\* a NULL encryption_salt column (also what `!config.encryptionSalt` tests)
NoSalt == 0

\* values of a text column: SQL NULL, or a string.  A string written by
\* encrypt() is the concatenation hex(iv) ++ hex(encrypted) ++ hex(authTag),
\* kept here as its three segments; any other string is kept as its text.
Null == [kind |-> "null"]
Text(s) == [kind |-> "text", text |-> s]
Combined(iv, encrypted, authTag) ==
    [kind |-> "hex", iv |-> iv, encrypted |-> encrypted, authTag |-> authTag]

\* JavaScript truthiness of a nullable string column
Falsy(v) == v = Null \/ v = Text("")

\* a property of an object literal: undefined, or a value
Undefined == [kind |-> "undefined"]
Def(v) == [kind |-> "value", value |-> v]

\* config.f of a ConfigurationUpdate, which holds only the fields supplied
Has(config, f) == f \in DOMAIN config
Truthy(config, f) == Has(config, f) /\ config[f] # ""

(***************************************************************************)
(* process.env                                                             *)
(***************************************************************************)
\* process.env.DATABASE_URL?.slice(-10)
DatabaseUrlSuffix == "neon/aabot"

\* the variables read by the default configuration; none is set
ProcessEnv == [NODE_ENV |-> "development"]

EnvOr(name, dflt) ==
    IF name \in DOMAIN ProcessEnv /\ ProcessEnv[name] # ""
    THEN ProcessEnv[name] ELSE dflt

(***************************************************************************)
(* EncryptionService                                                       *)
(***************************************************************************)
\* sha256 of the passphrase `AABot-${salt}-${suffix}`: one key per passphrase
deriveMasterKey(salt) == <<"AABot", salt, DatabaseUrlSuffix>>

\* aes-256-gcm: the encrypted bytes and the tag computed over them
AesGcm(key, iv, plaintext) == [key |-> key, iv |-> iv, text |-> plaintext]
AuthTag(key, iv, encrypted) == [key |-> key, iv |-> iv, over |-> encrypted]

EncryptionFailed == [kind |-> "error", message |-> "Encryption failed"]
DecryptionFailed == [kind |-> "error", message |-> "Decryption failed"]

\* encrypt(plaintext, salt); iv is what randomBytes returns and fault says
\* whether a primitive of node:crypto throws during the call
encrypt(plaintext, salt, iv, fault) ==
    IF plaintext = "" THEN Text("")
    ELSE IF salt = NoSalt \/ fault THEN EncryptionFailed
    ELSE LET key == deriveMasterKey(salt)
             encrypted == AesGcm(key, iv, plaintext)
         IN  Combined(iv, encrypted, AuthTag(key, iv, encrypted))

\* variant: the authentication tag is not verified
decrypt_NoTagCheck(encryptedValue, salt, fault) ==
    IF Falsy(encryptedValue) THEN Text("")
    ELSE IF salt = NoSalt \/ fault THEN DecryptionFailed
    ELSE IF encryptedValue.kind # "hex" THEN Text("?")
    ELSE Text(encryptedValue.encrypted.text)

\* decrypt(encryptedValue, salt): the plaintext as Text(..), or the error
decrypt(encryptedValue, salt, fault) ==
    IF Falsy(encryptedValue) THEN Text("")
    ELSE IF salt = NoSalt \/ fault THEN DecryptionFailed
    ELSE IF encryptedValue.kind # "hex" THEN DecryptionFailed
    ELSE LET key == deriveMasterKey(salt)
             iv == encryptedValue.iv
             authTag == encryptedValue.authTag
             encrypted == encryptedValue.encrypted
         IN  IF authTag = AuthTag(key, iv, encrypted)
             THEN Text(encrypted.text)
             ELSE DecryptionFailed

testEncryption(salt, iv, fault) ==
    LET testValue == "test-encryption-value"
        encrypted == encrypt(testValue, salt, iv, fault)
    IN  IF encrypted.kind = "error" THEN FALSE
        ELSE decrypt(encrypted, salt, fault) = Text(testValue)

(***************************************************************************)
(* Results of the storage methods: a returned value, or a thrown error.    *)
(***************************************************************************)
Thrown(message) == [kind |-> "error", message |-> message]

(***************************************************************************)
(* DatabaseStorage: the mapper between the decrypted and the stored shape  *)
(***************************************************************************)
\* variant: the legacy branch is missing, every row is decrypted
decryptConfiguration_AlwaysDecrypts(config) ==
    LET dec == [f \in SensitiveFields |->
                   IF Falsy(config[f]) THEN Text("")
                   ELSE decrypt(config[f], config.encryptionSalt, FALSE)]
    IN  IF \E f \in SensitiveFields : dec[f].kind = "error"
        THEN Thrown("Configuration decryption failed")
        ELSE Def([col \in botConfigurations |->
                    IF col \in SensitiveFields THEN dec[col]
                    ELSE config[col]])

\* decryptConfiguration(config): Def(decrypted view) or the thrown error.
\* Sensitive fields of the view are strings, written Text(..).
decryptConfiguration(config) ==
    IF config.encryptionSalt = NoSalt
    THEN Def([col \in botConfigurations |->
                IF col \in SensitiveFields
                THEN (IF Falsy(config[col]) THEN Text("") ELSE config[col])
                ELSE config[col]])
    ELSE LET dec == [f \in SensitiveFields |->
                        IF Falsy(config[f]) THEN Text("")
                        ELSE decrypt(config[f], config.encryptionSalt, FALSE)]
         IN  IF \E f \in SensitiveFields : dec[f].kind = "error"
             THEN Thrown("Configuration decryption failed")
             ELSE Def([col \in botConfigurations |->
                         IF col \in SensitiveFields THEN dec[col]
                         ELSE config[col]])

\* variant: the literal has no encryptionSalt key
encryptConfiguration_NoSaltStamp(config, salt, ivs, fault) ==
    LET enc == [f \in SensitiveFields |->
                   IF Truthy(config, f)
                   THEN Def(encrypt(config[f], salt, ivs[f], fault))
                   ELSE Undefined]
    IN  IF \E f \in SensitiveFields :
              enc[f].kind = "value" /\ enc[f].value.kind = "error"
        THEN Thrown("Configuration encryption failed")
        ELSE Def([k \in ConfigurationUpdate |->
                    IF k \in SensitiveFields THEN enc[k]
                    ELSE IF Has(config, k) THEN Def(config[k])
                    ELSE Undefined])

\* the fields encryptConfiguration calls encrypt for, one draw of
\* randomBytes each
EncryptedFields(config) == {f \in SensitiveFields : Truthy(config, f)}

\* variant: the encryptionSalt of the literal is the one of the config when
\* the caller supplies one
encryptConfiguration_SaltFromConfig(config, salt, ivs, fault) ==
    LET enc == [f \in SensitiveFields |->
                   IF Truthy(config, f)
                   THEN Def(encrypt(config[f], salt, ivs[f], fault))
                   ELSE Undefined]
    IN  IF \E f \in SensitiveFields :
              enc[f].kind = "value" /\ enc[f].value.kind = "error"
        THEN Thrown("Configuration encryption failed")
        ELSE Def([k \in ConfigurationUpdate \cup {"encryptionSalt"} |->
                    IF k \in SensitiveFields THEN enc[k]
                    ELSE IF k = "encryptionSalt"
                    THEN (IF Has(config, k) THEN Def(config[k]) ELSE Def(salt))
                    ELSE IF Has(config, k) THEN Def(config[k])
                    ELSE Undefined])

\* encryptConfiguration(config, salt): Def(object literal) or the thrown
\* error.  Every key of the literal is present; the value of a key whose
\* field is missing (or, for a sensitive field, falsy) is undefined.
encryptConfiguration(config, salt, ivs, fault) ==
    LET enc == [f \in SensitiveFields |->
                   IF Truthy(config, f)
                   THEN Def(encrypt(config[f], salt, ivs[f], fault))
                   ELSE Undefined]
    IN  IF \E f \in SensitiveFields :
              enc[f].kind = "value" /\ enc[f].value.kind = "error"
        THEN Thrown("Configuration encryption failed")
        ELSE Def([k \in ConfigurationUpdate \cup {"encryptionSalt"} |->
                    IF k \in SensitiveFields THEN enc[k]
                    ELSE IF k = "encryptionSalt" THEN Def(salt)
                    ELSE IF Has(config, k) THEN Def(config[k])
                    ELSE Undefined])

(***************************************************************************)
(* drizzle-orm on PostgreSQL                                               *)
(***************************************************************************)
\* { ...a, ...b }: a key of b overrides the key of a, also when its value
\* is undefined
Spread(a, b) ==
    [k \in DOMAIN a \cup DOMAIN b |-> IF k \in DOMAIN b THEN b[k] ELSE a[k]]

\* randomUUID(): rows are never deleted, so the n-th insert gets the n-th id
UUIDs == <<"uuid-1", "uuid-2", "uuid-3", "uuid-4">>
randomUUID == UUIDs[Len(table) + 1]

\* the columns declared .notNull() without a .default()
NotNullNoDefault == {"workspaceName"}

\* what DEFAULT stands for in an INSERT
ColumnDefault(col) ==
    CASE col = "searchLimit" -> 10
      [] col = "enableVoting" -> TRUE
      [] col = "encryptionSalt" -> NoSalt
      [] col \in {"createdAt", "updatedAt"} -> now
      [] col = "id" -> randomUUID
      [] col = "workspaceName" -> ""
      [] OTHER -> Null

\* insert().values(): an undefined value is sent as DEFAULT
InsertViolatesNotNull(values) ==
    \E col \in NotNullNoDefault :
        col \notin DOMAIN values \/ values[col].kind = "undefined"

InsertRow(values) ==
    [col \in botConfigurations |->
        IF col \in DOMAIN values /\ values[col].kind = "value"
        THEN values[col].value
        ELSE ColumnDefault(col)]

\* variant: the UPDATE replaces the row, a column that is not set is reset
UpdateSet_ReplacesRow(row, values) ==
    [col \in botConfigurations |->
        IF col \in DOMAIN values /\ values[col].kind = "value"
        THEN values[col].value
        ELSE IF col \in {"id", "createdAt"} THEN row[col]
        ELSE ColumnDefault(col)]

\* update().set(): an undefined value leaves the column alone
UpdateSet(row, values) ==
    [col \in botConfigurations |->
        IF col \in DOMAIN values /\ values[col].kind = "value"
        THEN values[col].value
        ELSE row[col]]

\* select().from(botConfigurations).limit(1): the first row in heap order
SelectFirst == IF table = <<>> THEN Undefined ELSE Def(Head(table))

\* the table after an UPDATE of the rows WHERE id = ...; the new row version
\* keeps its place, or (moved) is written behind the other rows
UpdateWhereId(id, values, moved) ==
    LET hit == {i \in DOMAIN table : table[i].id = id}
        new == [i \in DOMAIN table |->
                   IF i \in hit THEN UpdateSet(table[i], values) ELSE table[i]]
    IN  IF moved
        THEN SelectSeq(new, LAMBDA r : r.id # id)
                \o SelectSeq(new, LAMBDA r : r.id = id)
        ELSE new

(***************************************************************************)
(* DatabaseStorage: the repository                                         *)
(***************************************************************************)
\* variant: the lookup never finds the stored row
getBotConfiguration_NeverFinds == Undefined

\* getBotConfiguration(): undefined, Def(decrypted view) or the thrown error
getBotConfiguration ==
    IF SelectFirst = Undefined THEN Undefined
    ELSE decryptConfiguration(SelectFirst.value)

\* the salts still held by a row, by a stored ciphertext or by a handler
SaltsInUse ==
    {table[i].encryptionSalt : i \in DOMAIN table}
    \cup UNION {{table[i][f].encrypted.key[2] :
                    f \in {g \in SensitiveFields : table[i][g].kind = "hex"}} :
                 i \in DOMAIN table}
    \cup {calls[c].salt : c \in Calls}

\* generateSalt(): 64 random bytes never repeat a salt
CanGenerateSalt == Salts \ SaltsInUse # {}
generateSalt ==
    CHOOSE s \in Salts \ SaltsInUse : \A t \in Salts \ SaltsInUse : s <= t

\* variant: the row is inserted first and the self-test runs afterwards
createBotConfiguration_TestAfterInsert(config, salt, testIv, ivs, fault) ==
    LET values == [id |-> Def(randomUUID),
                   workspaceName |->
                       Def(IF Truthy(config, "workspaceName")
                           THEN config.workspaceName ELSE "Apache Team"),
                   encryptionSalt |-> Def(salt)]
        created == InsertRow(values)
    IN  IF ~testEncryption(salt, testIv, fault)
        THEN [table |-> Append(table, created),
              result |-> Thrown("Encryption test failed - cannot create configuration")]
        ELSE [table |-> Append(table, created),
              result |-> decryptConfiguration(created)]

\* createBotConfiguration(config): the table it leaves and what it returns
createBotConfiguration(config, salt, testIv, ivs, fault) ==
    IF ~testEncryption(salt, testIv, fault)
    THEN [table |-> table,
          result |-> Thrown("Encryption test failed - cannot create configuration")]
    ELSE
    LET encryptedConfig == encryptConfiguration(config, salt, ivs, fault)
    IN  IF encryptedConfig.kind = "error"
        THEN [table |-> table, result |-> encryptedConfig]
        ELSE
        LET enc == encryptedConfig.value
            configToInsert ==
                Spread(
                  Spread([id |-> Def(randomUUID),
                          workspaceName |->
                              IF enc.workspaceName.kind = "value"
                                 /\ enc.workspaceName.value # ""
                              THEN enc.workspaceName
                              ELSE Def("Apache Team")],
                         enc),
                  [createdAt |-> Def(now), updatedAt |-> Def(now)])
        IN  IF InsertViolatesNotNull(configToInsert)
            THEN [table |-> table,
                  result |-> Thrown("null value in column workspace_name")]
            ELSE LET created == InsertRow(configToInsert)
                 IN  [table |-> Append(table, created),
                      result |-> decryptConfiguration(created)]

\* the defaultConfig literal of updateBotConfiguration
defaultConfig ==
    [workspaceName |-> "Apache Team",
     apacheAnswerApiUrl |-> EnvOr("APACHE_ANSWER_API_URL", "https://meta.answer.dev"),
     apacheAnswerApiKey |-> EnvOr("APACHE_ANSWER_API_KEY", ""),
     slackBotToken |-> EnvOr("SLACK_BOT_TOKEN", ""),
     slackAppToken |-> EnvOr("SLACK_APP_TOKEN", ""),
     slackChannelId |-> EnvOr("SLACK_CHANNEL_ID", ""),
     slackSigningSecret |-> EnvOr("SLACK_SIGNING_SECRET", ""),
     searchLimit |-> 10,
     enableVoting |-> TRUE]

(***************************************************************************)
(* Requests                                                                *)
(***************************************************************************)
\* the JSON bodies the clients send, and the configs handed to the storage
UpdWorkspace == [workspaceName |-> "Team B"]
UpdLimit25 == [searchLimit |-> 25]
UpdLimit0 == [searchLimit |-> 0]
UpdLimit51 == [searchLimit |-> 51]
UpdToken == [slackBotToken |-> "xoxb-BBB"]
UpdScenario ==
    [apacheAnswerApiUrl |-> "https://x.example", slackBotToken |-> "xoxb-AAA",
     searchLimit |-> 10, enableVoting |-> TRUE]
UpdPut == [workspaceName |-> "Team B", searchLimit |-> 51, enableVoting |-> FALSE]

RequestBodies ==
    {UpdWorkspace, UpdLimit25, UpdLimit0, UpdLimit51, UpdToken, UpdPut}

\* the configs a client of IStorage hands to createBotConfiguration
CreateConfigs == {UpdScenario, UpdWorkspace}

\* the body {}
NoFields == [f \in {} |-> ""]

Idle ==
    [op |-> "idle", pc |-> "idle", config |-> NoFields, existingId |-> "",
     existingSalt |-> NoSalt, salt |-> NoSalt, status |-> 0, result |-> Undefined]

\* a row inserted by hand before the encryption layer existed
LegacyRow ==
    [id |-> "uuid-1", workspaceName |-> "Apache Team",
     apacheAnswerApiUrl |-> Text("https://legacy.example"),
     apacheAnswerApiKey |-> Null,
     slackBotToken |-> Text("xoxb-LEGACY"),
     slackAppToken |-> Null, slackChannelId |-> Null,
     slackSigningSecret |-> Null,
     searchLimit |-> 10, enableVoting |-> TRUE, encryptionSalt |-> NoSalt,
     createdAt |-> 0, updatedAt |-> 0]

\* no EncryptionService call is under test
NoCipherCall == [op |-> "none"]

Init ==
    /\ table \in {<<>>, <<LegacyRow>>}
    /\ calls = [c \in Calls |-> Idle]
    /\ now = 0
    /\ served = 0
    /\ cipher = NoCipherCall
    /\ InitService

\* a finished handler sends its response before anything else runs: there is
\* no await between its return and res.json()
NoneDone == \A c \in Calls : calls[c].pc # "done"

\* the handler returns (or throws) and the response is sent
Finish(c, op, config, result) ==
    calls' = [calls EXCEPT ![c] =
                [op |-> op, pc |-> "done", config |-> config,
                 existingId |-> calls[c].existingId,
                 existingSalt |-> calls[c].existingSalt, salt |-> NoSalt,
                 status |-> IF result.kind = "error" THEN 500 ELSE 200,
                 result |-> result]]

(***************************************************************************)
(* routes.ts: Express runs the first handler registered for the method and *)
(* path; none of these handlers calls next().                              *)
(***************************************************************************)
Routes ==
    << [method |-> "GET", path |-> "/api/bot/config", handler |-> "getConfig"],
       [method |-> "PUT", path |-> "/api/bot/config", handler |-> "putConfig"],
       [method |-> "GET", path |-> "/api/bot/config", handler |-> "getConfigOrDefault"],
       [method |-> "PATCH", path |-> "/api/bot/config", handler |-> "patchConfig"] >>

RouteHandler(method, path) ==
    LET hits == {i \in DOMAIN Routes :
                    Routes[i].method = method /\ Routes[i].path = path}
    IN  Routes[CHOOSE i \in hits : \A j \in hits : i <= j].handler

\* the object literal of the second GET handler
DefaultConfigResponse ==
    [id |-> "", workspaceName |-> "Apache Team",
     apacheAnswerApiUrl |-> Text(""), apacheAnswerApiKey |-> Text(""),
     slackBotToken |-> Text(""), slackAppToken |-> Text(""),
     slackChannelId |-> Text(""), slackSigningSecret |-> Text(""),
     searchLimit |-> 10, enableVoting |-> TRUE]

\* GET /api/bot/config
HttpGetConfig(c) ==
    /\ NoneDone
    /\ calls[c].pc = "idle"
    /\ served < MaxRequests
    /\ served' = served + 1
    /\ LET handler == RouteHandler("GET", "/api/bot/config")
           config == getBotConfiguration
       IN  IF handler = "getConfigOrDefault" /\ config = Undefined
           THEN Finish(c, "GET", calls[c].config, Def(DefaultConfigResponse))
           ELSE Finish(c, "GET", calls[c].config, config)
    /\ UNCHANGED <<table, now>>
    /\ UNCHANGED <<cipher, serviceVars>>

\* the validation of the PATCH handler
PatchRejects(updates) ==
    /\ Has(updates, "searchLimit")
    /\ updates.searchLimit # 0
    /\ (updates.searchLimit < 1 \/ updates.searchLimit > 50)

\* PATCH /api/bot/config, up to the call of updateBotConfiguration
HttpPatchConfig(c, body) ==
    /\ NoneDone
    /\ calls[c].pc = "idle"
    /\ served < MaxRequests
    /\ served' = served + 1
    /\ IF PatchRejects(body)
       THEN calls' = [calls EXCEPT ![c] =
                [Idle EXCEPT !.op = "PATCH", !.pc = "done", !.config = body,
                             !.status = 400,
                             !.result = Thrown("Search limit must be between 1 and 50")]]
       ELSE calls' = [calls EXCEPT ![c] =
                [Idle EXCEPT !.op = "update", !.pc = "get", !.config = body]]
    /\ UNCHANGED <<table, now>>
    /\ UNCHANGED <<cipher, serviceVars>>

\* insertBotConfigurationSchema.parse: workspace_name is NOT NULL without a
\* default, so the key is required; search_limit is any integer
PutParses(body) == Has(body, "workspaceName")

\* what parse returns: the keys of the insert schema (the columns without
\* id, createdAt, updatedAt); a z.object strips every other key
insertBotConfigurationSchema ==
    botConfigurations \ {"id", "createdAt", "updatedAt"}
Parsed(body) ==
    [k \in DOMAIN body \cap insertBotConfigurationSchema |-> body[k]]

\* PUT /api/bot/config, up to the call of updateBotConfiguration
HttpPutConfig(c, body) ==
    /\ NoneDone
    /\ calls[c].pc = "idle"
    /\ served < MaxRequests
    /\ served' = served + 1
    /\ IF PutParses(body)
       THEN calls' = [calls EXCEPT ![c] =
                [Idle EXCEPT !.op = "update", !.pc = "get",
                             !.config = Parsed(body)]]
       ELSE calls' = [calls EXCEPT ![c] =
                [Idle EXCEPT !.op = "PUT", !.pc = "done", !.config = body,
                             !.status = 500,
                             !.result = Thrown("ZodError")]]
    /\ UNCHANGED <<table, now>>
    /\ UNCHANGED <<cipher, serviceVars>>

(***************************************************************************)
(* storage.ts: createBotConfiguration called by a client of IStorage       *)
(***************************************************************************)
CallCreate(c, config) ==
    /\ NoneDone
    /\ calls[c].pc = "idle"
    /\ served < MaxRequests
    /\ served' = served + 1
    /\ Len(table) < MaxRows
    /\ CanGenerateSalt
    /\ \E testIv \in IVs, ivs \in [EncryptedFields(config) -> IVs], fault \in BOOLEAN :
         LET out == createBotConfiguration(config, generateSalt, testIv, ivs, fault)
         IN  /\ table' = out.table
             /\ Finish(c, "create", config, out.result)
    /\ UNCHANGED now
    /\ UNCHANGED <<cipher, serviceVars>>

(***************************************************************************)
(* storage.ts: updateBotConfiguration, one action per awaited statement    *)
(***************************************************************************)
\* let existing = await this.getBotConfiguration()
UpdateGetExisting(c) ==
    /\ NoneDone
    /\ calls[c].pc = "get"
    /\ UNCHANGED served
    /\ LET existing == getBotConfiguration
       IN  CASE existing.kind = "error" ->
                  Finish(c, calls[c].op, calls[c].config, existing)
             [] existing.kind = "undefined" ->
                  calls' = [calls EXCEPT ![c].pc = "create"]
             [] OTHER ->
                  calls' = [calls EXCEPT ![c].pc = "raw",
                                         ![c].existingId = existing.value.id,
                                         ![c].existingSalt =
                                             existing.value.encryptionSalt]
    /\ UNCHANGED <<table, now>>
    /\ UNCHANGED <<cipher, serviceVars>>

\* if (!existing) return this.createBotConfiguration(defaultConfig)
UpdateCreateDefault(c) ==
    /\ NoneDone
    /\ calls[c].pc = "create"
    /\ UNCHANGED served
    /\ Len(table) < MaxRows
    /\ CanGenerateSalt
    /\ \E testIv \in IVs, ivs \in [EncryptedFields(defaultConfig) -> IVs], fault \in BOOLEAN :
         LET out == createBotConfiguration(defaultConfig, generateSalt, testIv, ivs, fault)
         IN  /\ table' = out.table
             /\ Finish(c, calls[c].op, calls[c].config, out.result)
    /\ UNCHANGED now
    /\ UNCHANGED <<cipher, serviceVars>>

\* const [rawConfig] = await db.select()...; const salt = ... || generateSalt()
UpdateSelectRaw(c) ==
    /\ NoneDone
    /\ calls[c].pc = "raw"
    /\ UNCHANGED served
    /\ SelectFirst # Undefined
    /\ LET rawConfig == SelectFirst.value
       IN  IF rawConfig.encryptionSalt # NoSalt
           THEN calls' = [calls EXCEPT ![c].pc = "write",
                                       ![c].salt = rawConfig.encryptionSalt]
           ELSE /\ CanGenerateSalt
                /\ calls' = [calls EXCEPT ![c].pc = "write",
                                          ![c].salt = generateSalt]
    /\ UNCHANGED <<table, now>>
    /\ UNCHANGED <<cipher, serviceVars>>

\* encryptConfiguration, db.update().set().where().returning() and the
\* decryptConfiguration of the returned row
UpdateWrite(c) ==
    /\ NoneDone
    /\ calls[c].pc = "write"
    /\ UNCHANGED served
    /\ \E ivs \in [EncryptedFields(calls[c].config) -> IVs], fault \in BOOLEAN,
          moved \in BOOLEAN :
         LET encryptedUpdate ==
                 encryptConfiguration(calls[c].config, calls[c].salt, ivs, fault)
         IN  IF encryptedUpdate.kind = "error"
             THEN /\ table' = table
                  /\ Finish(c, calls[c].op, calls[c].config, encryptedUpdate)
             ELSE LET set == Spread(encryptedUpdate.value,
                                    [updatedAt |-> Def(now)])
                      after == UpdateWhereId(calls[c].existingId, set, moved)
                      updated == CHOOSE r \in {after[i] : i \in DOMAIN after} :
                                     r.id = calls[c].existingId
                  IN  /\ table' = after
                      /\ Finish(c, calls[c].op, calls[c].config,
                                decryptConfiguration(updated))
    /\ UNCHANGED now
    /\ UNCHANGED <<cipher, serviceVars>>

\* the response has been sent; the handler's frame is gone
Respond(c) ==
    /\ calls[c].pc = "done"
    /\ UNCHANGED served
    /\ calls' = [calls EXCEPT ![c] = Idle]
    /\ UNCHANGED <<table, now>>
    /\ UNCHANGED <<cipher, serviceVars>>

\* time passes
Tick ==
    /\ NoneDone
    /\ now < MaxTime
    /\ now' = now + 1
    /\ UNCHANGED <<table, calls, served>>
    /\ UNCHANGED <<cipher, serviceVars>>

Next ==
    \/ \E c \in Calls : HttpGetConfig(c)
    \/ \E c \in Calls, body \in RequestBodies : HttpPatchConfig(c, body)
    \/ \E c \in Calls, body \in RequestBodies : HttpPutConfig(c, body)
    \/ \E c \in Calls, config \in CreateConfigs : CallCreate(c, config)
    \/ \E c \in Calls : UpdateGetExisting(c)
    \/ \E c \in Calls : UpdateCreateDefault(c)
    \/ \E c \in Calls : UpdateSelectRaw(c)
    \/ \E c \in Calls : UpdateWrite(c)
    \/ \E c \in Calls : Respond(c)
    \/ Tick

Spec == Init /\ [][Next]_vars

(***************************************************************************)
(* The HTTP traffic alone: overlapping GET, PATCH and PUT requests, and no *)
(* other client of the storage                                             *)
(***************************************************************************)
InitEmpty ==
    /\ table = <<>>
    /\ calls = [c \in Calls |-> Idle]
    /\ now = 0
    /\ served = 0
    /\ cipher = NoCipherCall
    /\ InitService

NextHttp ==
    \/ \E c \in Calls : HttpGetConfig(c)
    \/ \E c \in Calls, body \in RequestBodies : HttpPatchConfig(c, body)
    \/ \E c \in Calls, body \in RequestBodies : HttpPutConfig(c, body)
    \/ \E c \in Calls : UpdateGetExisting(c)
    \/ \E c \in Calls : UpdateCreateDefault(c)
    \/ \E c \in Calls : UpdateSelectRaw(c)
    \/ \E c \in Calls : UpdateWrite(c)
    \/ \E c \in Calls : Respond(c)
    \/ Tick

SpecHttp == InitEmpty /\ [][NextHttp]_vars

(***************************************************************************)
(* Sequential use: the clients send PATCH and PUT requests one after the   *)
(* other, each after the response to the previous one, to a fresh database *)
(***************************************************************************)
AllIdle == \A c \in Calls : calls[c].pc = "idle"

NextSequential ==
    \/ \E c \in Calls, body \in RequestBodies : AllIdle /\ HttpPatchConfig(c, body)
    \/ \E c \in Calls, body \in RequestBodies : AllIdle /\ HttpPutConfig(c, body)
    \/ \E c \in Calls : UpdateGetExisting(c)
    \/ \E c \in Calls : UpdateCreateDefault(c)
    \/ \E c \in Calls : UpdateSelectRaw(c)
    \/ \E c \in Calls : UpdateWrite(c)
    \/ \E c \in Calls : Respond(c)
    \/ Tick

SpecSequential == InitEmpty /\ [][NextSequential]_vars

(***************************************************************************)
(* Updates of an existing, salted record: overlapping PATCH requests to a  *)
(* database that holds the one row an earlier create has written           *)
(***************************************************************************)
\* the body that clears the bot token
UpdClearToken == [slackBotToken |-> ""]

UpdateBodies == {UpdWorkspace, UpdLimit25, UpdToken, UpdClearToken}

\* the row createBotConfiguration wrote for a config with a workspace name,
\* an API URL and a bot token
SaltedRow ==
    [id |-> "uuid-1", workspaceName |-> "Apache Team",
     apacheAnswerApiUrl |-> encrypt("https://meta.answer.dev", 1, 1, FALSE),
     apacheAnswerApiKey |-> Null,
     slackBotToken |-> encrypt("xoxb-AAA", 1, 1, FALSE),
     slackAppToken |-> Null, slackChannelId |-> Null,
     slackSigningSecret |-> Null,
     searchLimit |-> 10, enableVoting |-> TRUE, encryptionSalt |-> 1,
     createdAt |-> 0, updatedAt |-> 0]

InitSalted ==
    /\ table = <<SaltedRow>>
    /\ calls = [c \in Calls |-> Idle]
    /\ now = 0
    /\ served = 0
    /\ cipher = NoCipherCall
    /\ InitService

NextSalted ==
    \/ \E c \in Calls, body \in UpdateBodies : HttpPatchConfig(c, body)
    \/ \E c \in Calls : UpdateGetExisting(c)
    \/ \E c \in Calls : UpdateSelectRaw(c)
    \/ \E c \in Calls : UpdateWrite(c)
    \/ \E c \in Calls : Respond(c)
    \/ Tick

SpecSalted == InitSalted /\ [][NextSalted]_vars

(***************************************************************************)
(* EncryptionService at the level of the strings it builds and slices.     *)
(* A string is a sequence of characters; a Buffer is a sequence of bytes.  *)
(* The bytes that node:crypto computes are kept symbolic: a byte of the    *)
(* GCM key stream and of the tag is named by what it was computed from,    *)
(* and no two different computations give the same byte.                   *)
(***************************************************************************)
IV_LENGTH == 16
TAG_LENGTH == 16

\* code units of a plaintext under test
MaxLen == 2
\* salts the unit under test is called with
MaxCipherSalts == 2

\* the salt argument: 0 is the missing salt (null, undefined or '')
CipherSalts == {NoSalt} \cup (1..MaxCipherSalts)

\* UTF-16 code units, by code point; U+D800 is an unpaired surrogate
Alphabet == {"U+0078", "U+00E9", "U+D800"}
Strings == UNION {[1..n -> Alphabet] : n \in 0..MaxLen}

\* a byte of UTF-8 text
Utf8Byte(v) == [seg |-> "utf8", v |-> v]

\* the bytes Node writes for a code unit with the encoding 'utf8': an
\* unpaired surrogate is written as U+FFFD
Utf8Of(ch) ==
    CASE ch = "U+0078" -> <<Utf8Byte("78")>>
      [] ch = "U+00E9" -> <<Utf8Byte("c3"), Utf8Byte("a9")>>
      [] OTHER -> <<Utf8Byte("ef"), Utf8Byte("bf"), Utf8Byte("bd")>>

RECURSIVE Utf8Write(_)
Utf8Write(str) ==
    IF str = <<>> THEN <<>> ELSE Utf8Of(Head(str)) \o Utf8Write(Tail(str))

\* the string Node reads from bytes with the encoding 'utf8'
RECURSIVE Utf8Read(_)
Utf8Read(bytes) ==
    LET n == Len(bytes)
        starts(prefix) ==
            n >= Len(prefix) /\ SubSeq(bytes, 1, Len(prefix)) = prefix
    IN  IF n = 0 THEN <<>>
        ELSE IF starts(Utf8Of("U+0078"))
             THEN <<"U+0078">> \o Utf8Read(SubSeq(bytes, 2, n))
        ELSE IF starts(Utf8Of("U+00E9"))
             THEN <<"U+00E9">> \o Utf8Read(SubSeq(bytes, 3, n))
        ELSE IF starts(Utf8Of("U+FFFD"))
             THEN <<"U+FFFD">> \o Utf8Read(SubSeq(bytes, 4, n))
        ELSE <<"U+FFFD">> \o Utf8Read(SubSeq(bytes, 2, n))

\* randomBytes(IV_LENGTH): the i-th draw
randomBytes(i) == [j \in 1..IV_LENGTH |-> [seg |-> "iv", id |-> i, j |-> j]]

\* the value of an iv Buffer, short when it is a draw of randomBytes
IvValue(iv) ==
    IF \E i \in IVs : iv = randomBytes(i)
    THEN [rand |-> CHOOSE i \in IVs : iv = randomBytes(i)]
    ELSE [bytes |-> iv]

\* aes-256-gcm, counter mode: byte j is byte j of the key stream of
\* (key, iv) combined with byte j of the input
GcmEncrypt(key, iv, data) ==
    LET ivValue == IvValue(iv)
    IN  [j \in 1..Len(data) |->
            [seg |-> "ct", key |-> key, iv |-> ivValue, j |-> j, p |-> data[j]]]

GcmDecrypt(key, iv, data) ==
    LET ivValue == IvValue(iv)
    IN  [j \in 1..Len(data) |->
            IF /\ data[j].seg = "ct"
               /\ data[j].key = key
               /\ data[j].iv = ivValue
               /\ data[j].j = j
            THEN data[j].p
            ELSE [seg |-> "garbage", of |-> data[j]]]

\* cipher.getAuthTag(): the 16 bytes of the tag over (key, iv, encrypted)
GcmTag(key, iv, data) ==
    LET mac == [seg |-> "tag", key |-> key, iv |-> IvValue(iv), over |-> data]
    IN  [j \in 1..TAG_LENGTH |-> [mac |-> mac, j |-> j]]

\* the tag lengths decipher.setAuthTag() accepts for GCM when
\* createDecipheriv was given no authTagLength
ValidGcmTagLengths == {4, 8, 12, 13, 14, 15, 16}

\* a character of a hex string: the half h (1 high, 2 low) of the byte b
\* with the bits x of its value flipped; written as toString('hex') writes
\* it ("hex"), in the other letter case ("upper"), or replaced by a
\* character that is not a hex digit ("other")
HexChar(b, h) == [b |-> b, h |-> h, x |-> {}, f |-> "hex"]

\* buffer.toString('hex')
Hex(bytes) ==
    [i \in 1..(2 * Len(bytes)) |->
        HexChar(bytes[(i + 1) \div 2], IF i % 2 = 1 THEN 1 ELSE 2)]

\* the byte two hex digits stand for; the letter case does not matter
ByteOf(c1, c2) ==
    IF c1.h = 1 /\ c2.h = 2 /\ c1.b = c2.b /\ c1.x = {} /\ c2.x = {}
    THEN c1.b
    ELSE [seg |-> "changed",
          hi |-> [b |-> c1.b, h |-> c1.h, x |-> c1.x],
          lo |-> [b |-> c2.b, h |-> c2.h, x |-> c2.x]]

\* Buffer.from(str, 'hex'): decoding stops at the first character that is
\* not a hex digit, and a last digit without a partner is dropped
BufferFromHex(str) ==
    LET bad == {i \in 1..Len(str) : str[i].f = "other"}
        valid == IF bad = {} THEN Len(str)
                 ELSE (CHOOSE i \in bad : \A k \in bad : i <= k) - 1
    IN  [j \in 1..(valid \div 2) |-> ByteOf(str[2 * j - 1], str[2 * j])]

\* String.prototype.slice(start, end)
SliceIndex(i, len) ==
    IF i < 0 THEN (IF len + i < 0 THEN 0 ELSE len + i)
    ELSE (IF i > len THEN len ELSE i)

Slice(str, start, end) ==
    LET from == SliceIndex(start, Len(str))
        to == SliceIndex(end, Len(str))
    IN  IF from >= to THEN <<>> ELSE SubSeq(str, from + 1, to)

\* what a call returns (a string) or throws, and the node:crypto
\* primitives it has called
Returned(str, primitives) ==
    [kind |-> "string", chars |-> str, primitives |-> primitives]
Threw(message, primitives) ==
    [kind |-> "error", message |-> message, primitives |-> primitives]

\* variant: the empty plaintext is encrypted like any other
EncryptionService_encrypt_NoShortCircuit(plaintext, salt, iv) ==
    IF salt = NoSalt THEN Threw("Encryption failed", <<>>)
    ELSE LET key == deriveMasterKey(salt)
             ivBytes == randomBytes(iv)
             data == GcmEncrypt(key, ivBytes, Utf8Write(plaintext))
         IN  Returned(Hex(ivBytes) \o Hex(data) \o Hex(GcmTag(key, ivBytes, data)),
                      <<"createHash", "randomBytes", "createCipheriv",
                        "update", "final", "getAuthTag">>)

\* encrypt(plaintext, salt), iv being the draw of randomBytes
EncryptionService_encrypt(plaintext, salt, iv) ==
    IF plaintext = <<>> THEN Returned(<<>>, <<>>)
    ELSE IF salt = NoSalt THEN Threw("Encryption failed", <<>>)
    ELSE LET key == deriveMasterKey(salt)
             ivBytes == randomBytes(iv)
             data == GcmEncrypt(key, ivBytes, Utf8Write(plaintext))
             encrypted == Hex(data)
             authTag == GcmTag(key, ivBytes, data)
             combined == Hex(ivBytes) \o encrypted \o Hex(authTag)
         IN  Returned(combined,
                      <<"createHash", "randomBytes", "createCipheriv",
                        "update", "final", "getAuthTag">>)

\* decrypt(encryptedValue, salt)
EncryptionService_decrypt(encryptedValue, salt) ==
    IF encryptedValue = <<>> THEN Returned(<<>>, <<>>)
    ELSE IF salt = NoSalt THEN Threw("Decryption failed", <<>>)
    ELSE LET key == deriveMasterKey(salt)
             iv == BufferFromHex(Slice(encryptedValue, 0, IV_LENGTH * 2))
             authTag == BufferFromHex(Slice(encryptedValue, 0 - TAG_LENGTH * 2,
                                            Len(encryptedValue)))
             encrypted == Slice(encryptedValue, IV_LENGTH * 2, 0 - TAG_LENGTH * 2)
             data == BufferFromHex(encrypted)
         IN  IF Len(iv) = 0
             THEN Threw("Decryption failed", <<"createHash", "createDecipheriv">>)
             ELSE IF Len(authTag) \notin ValidGcmTagLengths
             THEN Threw("Decryption failed",
                        <<"createHash", "createDecipheriv", "setAuthTag">>)
             ELSE IF authTag # SubSeq(GcmTag(key, iv, data), 1, Len(authTag))
             THEN Threw("Decryption failed",
                        <<"createHash", "createDecipheriv", "setAuthTag",
                          "update", "final">>)
             ELSE Returned(Utf8Read(GcmDecrypt(key, iv, data)),
                           <<"createHash", "createDecipheriv", "setAuthTag",
                             "update", "final">>)

(***************************************************************************)
(* The EncryptionService as a unit: one encrypt call, the string it        *)
(* returned as it comes back from storage (intact, or with one bit of one  *)
(* character flipped), and one decrypt call on it.                         *)
(***************************************************************************)
NoFlip == [pos |-> 0, how |-> "none", bit |-> 0]

\* the effects one flipped bit of a character can have, depending on the
\* digit: another hex digit whose value differs in one bit ("value"), the
\* same letter in the other case ("case"), or no hex digit at all ("other")
Flips(len) ==
    {[pos |-> i, how |-> "value", bit |-> b] : i \in 1..len, b \in 0..3}
    \cup {[pos |-> i, how |-> h, bit |-> 0] : i \in 1..len, h \in {"case", "other"}}

FlipBit(str, flip) ==
    [str EXCEPT ![flip.pos] =
        CASE flip.how = "value" ->
                 [@ EXCEPT !.x = (@ \ {flip.bit}) \cup ({flip.bit} \ @)]
          [] flip.how = "case" ->
                 [@ EXCEPT !.f = IF @ = "hex" THEN "upper" ELSE "hex"]
          [] OTHER -> [@ EXCEPT !.f = "other"]]

\* the string encrypt returned, as it is handed to decrypt
StoredValue ==
    IF cipher.flip = NoFlip THEN cipher.encrypted.chars
    ELSE FlipBit(cipher.encrypted.chars, cipher.flip)

\* const encrypted = encryptionService.encrypt(plaintext, salt)
CipherEncrypt(plaintext, salt, iv) ==
    /\ cipher.op = "none"
    /\ LET out == EncryptionService_encrypt(plaintext, salt, iv)
       IN  cipher' = [op |-> "encrypt", plaintext |-> plaintext, salt |-> salt,
                      iv |-> iv, encrypted |-> out,
                      flip |-> NoFlip, dsalt |-> NoSalt,
                      decrypted |-> Threw("", <<>>)]
    /\ UNCHANGED <<table, calls, now, served, serviceVars>>

\* the stored string is changed in one bit
CipherTamper(flip) ==
    /\ cipher.op = "encrypt"
    /\ cipher.encrypted.kind = "string"
    /\ flip.pos <= Len(cipher.encrypted.chars)
    /\ cipher' = [cipher EXCEPT !.op = "tamper", !.flip = flip]
    /\ UNCHANGED <<table, calls, now, served, serviceVars>>

\* encryptionService.decrypt(value, salt)
CipherDecrypt(salt) ==
    /\ cipher.op \in {"encrypt", "tamper"}
    /\ cipher.encrypted.kind = "string"
    /\ cipher' = [cipher EXCEPT !.op = "decrypt", !.dsalt = salt,
                                !.decrypted =
                                    EncryptionService_decrypt(StoredValue, salt)]
    /\ UNCHANGED <<table, calls, now, served, serviceVars>>

NextCipher ==
    \/ \E plaintext \in Strings, salt \in CipherSalts, iv \in IVs :
           CipherEncrypt(plaintext, salt, iv)
    \/ \E flip \in Flips(2 * (IV_LENGTH + TAG_LENGTH + 3 * MaxLen)) :
           CipherTamper(flip)
    \/ \E salt \in CipherSalts : CipherDecrypt(salt)

SpecCipher == InitEmpty /\ [][NextCipher]_vars

(***************************************************************************)
(* Properties                                                              *)
(***************************************************************************)
Rows == {table[i] : i \in DOMAIN table}
RowById(tbl, id) == CHOOSE r \in {tbl[i] : i \in DOMAIN tbl} : r.id = id
HasRow(tbl, id) == \E i \in DOMAIN tbl : tbl[i].id = id

\* the stored value is a ciphertext that encrypt() produces under the salt
CiphertextUnder(v, salt) ==
    /\ v.kind = "hex"
    /\ v.encrypted.key = deriveMasterKey(salt)
    /\ v.encrypted.iv = v.iv
    /\ v.authTag = AuthTag(deriveMasterKey(salt), v.iv, v.encrypted)

\* the call of updateBotConfiguration in slot c has returned a record
UpdateReturned(c) ==
    /\ calls[c].pc = "done"
    /\ calls[c].op = "update"
    /\ calls[c].result.kind = "value"

\* ... and it found no record, so that it created one
UpdateCreated(c) == UpdateReturned(c) /\ calls[c].existingId = ""

\* C1: the bot_configurations table holds at most one configuration record
\* in every reachable state, whatever get, create and update calls ran and
\* however they overlapped.
C1_AtMostOneRecord == Len(table) <= 1

\* C2: an updateBotConfiguration(u) that finds no record creates one that
\* holds u's value for every field u supplies (the defaults only elsewhere),
\* and the view it returns shows u's values.
C2_CreateKeepsUpdate ==
    \A c \in Calls :
        UpdateCreated(c) =>
            LET u == calls[c].config
                view == calls[c].result.value
                row == RowById(table, view.id)
            IN  /\ \A f \in DOMAIN u \cap PlainFields :
                      row[f] = u[f] /\ view[f] = u[f]
                /\ \A f \in DOMAIN u \cap SensitiveFields :
                      /\ view[f] = Text(u[f])
                      /\ decrypt(row[f], row.encryptionSalt, FALSE) = Text(u[f])

\* C3: whenever a stored record has an encryptionSalt, each of its sensitive
\* fields is empty or a ciphertext produced under exactly that salt.
C3_SaltedMeansEncrypted ==
    \A r \in Rows :
        r.encryptionSalt # NoSalt =>
            \A f \in SensitiveFields :
                Falsy(r[f]) \/ CiphertextUnder(r[f], r.encryptionSalt)

\* C4: an updateBotConfiguration call that found a salted record and
\* supplies the fields F changes, in that record, only the fields of F and
\* updatedAt: id, encryptionSalt and every other column keep their stored
\* value, every sensitive field outside F still decrypts to the same
\* plaintext, and no other record changes.
C4_PartialUpdateFrame ==
    [][\A c \in Calls :
          (UpdateWrite(c) /\ calls[c].existingSalt # NoSalt) =>
              LET id == calls[c].existingId
                  before == RowById(table, id)
                  after == RowById(table', id)
              IN  /\ HasRow(table', id)
                  /\ \A col \in botConfigurations \
                                  (DOMAIN calls[c].config \cup {"updatedAt"}) :
                        after[col] = before[col]
                  /\ \A f \in SensitiveFields \ DOMAIN calls[c].config :
                        decrypt(after[f], after.encryptionSalt, FALSE)
                            = decrypt(before[f], before.encryptionSalt, FALSE)
                  /\ \A r \in Rows : r.id # id => r = RowById(table', r.id)
      ]_vars

\* C5: once a record has an encryptionSalt, no step of any
\* updateBotConfiguration call, sequential or overlapping, changes it.
C5_SaltNeverChanges ==
    [][\A r \in Rows :
          r.encryptionSalt # NoSalt =>
              /\ HasRow(table', r.id)
              /\ RowById(table', r.id).encryptionSalt = r.encryptionSalt
      ]_vars

\* C6: when the round-trip self-test of the fresh salt fails,
\* createBotConfiguration throws and the table is the same as before.
C6_FailedSelfTestWritesNothing ==
    [][\A c \in Calls :
          (/\ calls[c].pc # "done"
           /\ calls'[c].pc = "done"
           /\ calls'[c].result =
                 Thrown("Encryption test failed - cannot create configuration"))
          => table' = table
      ]_vars

\* C6 happens: a createBotConfiguration has thrown on the failed self-test
C6_Witness ==
    \E c \in Calls :
        /\ calls[c].pc = "done"
        /\ calls[c].op \in {"create", "update"}
        /\ calls[c].result =
              Thrown("Encryption test failed - cannot create configuration")

\* C7: a GET /api/bot/config served while no record exists is answered with
\* the default configuration object (and creates no record).
C7_GetAnswersDefaults ==
    \A c \in Calls :
        (calls[c].pc = "done" /\ calls[c].op = "GET" /\ table = <<>>) =>
            /\ calls[c].status = 200
            /\ calls[c].result = Def(DefaultConfigResponse)

\* C8: every searchLimit that the PATCH and PUT handlers hand to
\* updateBotConfiguration lies in 1..50, and so does every stored one.
C8_SearchLimitInRange ==
    /\ \A c \in Calls :
          (calls[c].op = "update" /\ Has(calls[c].config, "searchLimit")) =>
              calls[c].config.searchLimit \in 1..50
    /\ \A r \in Rows : r.searchLimit \in 1..50

\* C9: with no record at the start and updateBotConfiguration calls that do
\* not overlap, there is never more than one record; every call that
\* returns a record returns the one row of the table, which is the row the
\* first successful call created.
C9_SequentialUpdatesOneRecord ==
    /\ Len(table) <= 1
    /\ \A c \in Calls :
          UpdateReturned(c) =>
              /\ Len(table) = 1
              /\ calls[c].result.value.id = table[1].id
              /\ table[1].id = UUIDs[1]
              /\ calls[c].existingId \in {"", table[1].id}

\* C9 happens: a later call has updated the row an earlier call created
C9_Witness ==
    \E c \in Calls :
        /\ UpdateReturned(c)
        /\ served >= 2
        /\ calls[c].existingId = UUIDs[1]
        /\ Len(table) = 1

\* C10: createBotConfiguration with apacheAnswerApiUrl, slackBotToken,
\* searchLimit and enableVoting (no workspaceName) persists a record, unless
\* the crypto self-test fails, and getBotConfiguration then returns these
\* values in plaintext with a non-empty encryptionSalt.
C10_CreateScenarioPersists ==
    \A c \in Calls :
        (/\ calls[c].pc = "done"
         /\ calls[c].op = "create"
         /\ calls[c].config = UpdScenario
         /\ calls[c].result #
               Thrown("Encryption test failed - cannot create configuration"))
        => /\ calls[c].result.kind = "value"
           /\ HasRow(table, calls[c].result.value.id)
           /\ LET got == decryptConfiguration(
                             RowById(table, calls[c].result.value.id))
              IN  /\ got.kind = "value"
                  /\ got.value.apacheAnswerApiUrl = Text(UpdScenario.apacheAnswerApiUrl)
                  /\ got.value.slackBotToken = Text(UpdScenario.slackBotToken)
                  /\ got.value.searchLimit = UpdScenario.searchLimit
                  /\ got.value.enableVoting = UpdScenario.enableVoting
                  /\ got.value.encryptionSalt # NoSalt

\* the row getBotConfiguration reads, as the GET in slot c saw it
GetServed(c) ==
    /\ calls[c].pc = "done"
    /\ calls[c].op = "GET"
    /\ table # <<>>

\* C11: for a stored row without encryptionSalt, getBotConfiguration returns
\* every sensitive field exactly as stored (the empty string for NULL): the
\* value is not decrypted and no error is raised.
C11_LegacyReturnedAsStored ==
    \A c \in Calls :
        (GetServed(c) /\ Head(table).encryptionSalt = NoSalt) =>
            /\ calls[c].result.kind = "value"
            /\ \A f \in SensitiveFields :
                  calls[c].result.value[f] =
                      IF Head(table)[f] = Null THEN Text("") ELSE Head(table)[f]

\* C11 happens: a GET has returned the legacy row, plain text and NULL fields
C11_Witness ==
    \E c \in Calls :
        /\ GetServed(c)
        /\ Head(table).encryptionSalt = NoSalt
        /\ Head(table).apacheAnswerApiKey = Null
        /\ calls[c].result.kind = "value"
        /\ calls[c].result.value.slackBotToken = Text("xoxb-LEGACY")
        /\ calls[c].result.value.apacheAnswerApiKey = Text("")

\* C12: the write of the first updateBotConfiguration on a salt-less record
\* stores a salt no row had before, stores every (non-empty) sensitive field
\* the call supplies as ciphertext under that salt, and leaves every
\* sensitive field the call omits at its previous plain-text value.
C12_LegacyUpgradeIsPartial ==
    [][\A c \in Calls :
          (/\ UpdateWrite(c)
           /\ table' # table
           /\ RowById(table, calls[c].existingId).encryptionSalt = NoSalt)
          => LET id == calls[c].existingId
                 u == calls[c].config
                 before == RowById(table, id)
                 after == RowById(table', id)
             IN  /\ after.encryptionSalt # NoSalt
                 /\ after.encryptionSalt \notin SaltsInUse \ {calls[c].salt}
                 /\ after.encryptionSalt \notin
                        {calls[d].salt : d \in Calls \ {c}}
                 /\ \A f \in SensitiveFields :
                       IF Truthy(u, f)
                       THEN /\ CiphertextUnder(after[f], after.encryptionSalt)
                            /\ after[f].encrypted.text = u[f]
                       ELSE Has(u, f) \/ after[f] = before[f]
      ]_vars

\* C12 happens: the legacy row has a salt, the supplied token is ciphertext
\* under it and the omitted URL is still the legacy plain text
C12_Witness ==
    \E r \in Rows :
        /\ r.encryptionSalt # NoSalt
        /\ CiphertextUnder(r.slackBotToken, r.encryptionSalt)
        /\ r.slackBotToken.encrypted.text = UpdToken.slackBotToken
        /\ r.apacheAnswerApiUrl = LegacyRow.apacheAnswerApiUrl

\* C13: every row that createBotConfiguration or updateBotConfiguration
\* writes has an encryptionSalt, and a row that has one never loses it.
C13_NoWriteLeavesSaltless ==
    [][/\ \A i \in DOMAIN table' :
             table'[i] \notin Rows => table'[i].encryptionSalt # NoSalt
       /\ \A r \in Rows :
             r.encryptionSalt # NoSalt =>
                 /\ HasRow(table', r.id)
                 /\ RowById(table', r.id).encryptionSalt # NoSalt
      ]_vars

\* C13 happens: both write paths have written (a created row and the
\* updated legacy row) and every row has a salt
C13_Witness ==
    /\ Len(table) = 2
    /\ \A r \in Rows : r.encryptionSalt # NoSalt
    /\ \E r \in Rows : r.id = LegacyRow.id /\ r.updatedAt > LegacyRow.updatedAt

\* C14: for a salted row, getBotConfiguration either fails as a whole with
\* 'Configuration decryption failed' or returns a record in which every
\* sensitive field is the plaintext of the stored ciphertext ("" for an empty
\* stored value); it never returns ciphertext, garbage or a partial record.
C14_DecryptedOrFailed ==
    \A c \in Calls :
        (GetServed(c) /\ Head(table).encryptionSalt # NoSalt) =>
            \/ calls[c].result = Thrown("Configuration decryption failed")
            \/ /\ calls[c].result.kind = "value"
               /\ \A f \in SensitiveFields :
                     LET stored == Head(table)[f]
                         shown == calls[c].result.value[f]
                     IN  IF Falsy(stored) THEN shown = Text("")
                         ELSE /\ CiphertextUnder(stored, Head(table).encryptionSalt)
                              /\ shown = Text(stored.encrypted.text)

\* C14 happens: a GET has returned the decrypted view of a salted row
C14_Witness ==
    \E c \in Calls :
        /\ GetServed(c)
        /\ Head(table).encryptionSalt # NoSalt
        /\ calls[c].result.kind = "value"
        /\ calls[c].result.value.apacheAnswerApiUrl = Text(defaultConfig.apacheAnswerApiUrl)
        /\ calls[c].result.value.slackBotToken = Text("")

\* C14, the other case: a GET of a salted row that holds a value which is
\* not a ciphertext under its salt has failed as a whole
C14_FailedAsAWhole ==
    \E c \in Calls :
        /\ GetServed(c)
        /\ Head(table).encryptionSalt # NoSalt
        /\ calls[c].result = Thrown("Configuration decryption failed")

\* an encrypt call with a non-empty plaintext and a salt has returned
Encrypted ==
    /\ cipher.op # "none"
    /\ cipher.plaintext # <<>>
    /\ cipher.salt # NoSalt

\* C15: for every non-empty string s and salt k, decrypt(encrypt(s, k), k)
\* returns s; the first 32 characters decrypt slices are the hex of the IV,
\* the last 32 the hex of the tag and the rest the hex of the encrypted
\* bytes, as encrypt concatenated them.
C15_RoundTrip ==
    (/\ Encrypted
     /\ cipher.op = "decrypt"
     /\ cipher.flip = NoFlip
     /\ cipher.dsalt = cipher.salt)
    => /\ cipher.decrypted.kind = "string"
       /\ cipher.decrypted.chars = cipher.plaintext
       /\ LET key == deriveMasterKey(cipher.salt)
              iv == randomBytes(cipher.iv)
              data == GcmEncrypt(key, iv, Utf8Write(cipher.plaintext))
          IN  /\ Slice(StoredValue, 0, IV_LENGTH * 2) = Hex(iv)
              /\ Slice(StoredValue, IV_LENGTH * 2, 0 - TAG_LENGTH * 2) = Hex(data)
              /\ Slice(StoredValue, 0 - TAG_LENGTH * 2, Len(StoredValue))
                     = Hex(GcmTag(key, iv, data))

\* C16: decrypt(c, k) returns a plaintext p only when c carries the bytes
\* of an output of encrypt(p, k); when a bit of the ciphertext or tag
\* segment of encrypt(s, k1) was flipped, or the salt differs from k1,
\* decrypt fails.
C16_TamperAndSaltDetected ==
    cipher.op = "decrypt" =>
        /\ (cipher.decrypted.kind = "string" /\ StoredValue # <<>>) =>
               \E iv \in IVs :
                   LET out == EncryptionService_encrypt(
                                  cipher.decrypted.chars, cipher.dsalt, iv)
                   IN  /\ out.kind = "string"
                       /\ BufferFromHex(StoredValue) = BufferFromHex(out.chars)
        /\ (/\ Encrypted
            /\ \/ cipher.flip.pos > IV_LENGTH * 2
               \/ cipher.dsalt # cipher.salt)
           => cipher.decrypted.kind = "error"

\* C17: for a salt k, encrypt("", k) and decrypt("", k) return "" without
\* an error and without calling a primitive of node:crypto.
C17_EmptyShortCircuit ==
    /\ (cipher.op # "none" /\ cipher.plaintext = <<>> /\ cipher.salt # NoSalt)
           => cipher.encrypted = Returned(<<>>, <<>>)
    /\ (cipher.op = "decrypt" /\ StoredValue = <<>> /\ cipher.dsalt # NoSalt)
           => cipher.decrypted = Returned(<<>>, <<>>)

\* C17 happens: encrypt("", k) has returned "" and decrypt("", k') as well
C17_Witness ==
    /\ cipher.op = "decrypt"
    /\ cipher.plaintext = <<>>
    /\ cipher.salt # NoSalt
    /\ cipher.dsalt # NoSalt
    /\ StoredValue = <<>>
    /\ cipher.decrypted.kind = "string"
    /\ cipher.decrypted.chars = <<>>

\* C18: encrypt called with a missing salt throws, whatever the plaintext.
C18_EncryptRequiresSalt ==
    (cipher.op # "none" /\ cipher.salt = NoSalt)
        => cipher.encrypted.kind = "error"

\* the step is the UPDATE statement of the call in slot c
UpdateWrites(c) ==
    /\ UpdateWrite(c)
    /\ calls'[c].result # Thrown("Configuration encryption failed")

\* another updateBotConfiguration call is in flight
Overlapped(c) ==
    \E d \in Calls \ {c} :
        calls[d].op = "update" /\ calls[d].pc \in {"get", "raw", "write"}

\* C19: with updateBotConfiguration calls that overlap on a salted record,
\* every write leaves in the row, for each field its call supplies, the
\* value the call supplies, and leaves every other field as the earlier
\* writes left it (the last writer of a field wins, field by field); all
\* ciphertexts of the row decrypt under the one salt of the record.
C19_LastWriteWinsPerField ==
    [][\A c \in Calls :
          (UpdateWrites(c) /\ Overlapped(c)) =>
              LET u == calls[c].config
                  id == calls[c].existingId
                  before == RowById(table, id)
                  after == RowById(table', id)
              IN  /\ \A f \in DOMAIN u \cap PlainFields : after[f] = u[f]
                  /\ \A f \in DOMAIN u \cap SensitiveFields :
                        decrypt(after[f], after.encryptionSalt, FALSE) = Text(u[f])
                  /\ \A col \in botConfigurations \ (DOMAIN u \cup {"updatedAt"}) :
                        after[col] = before[col]
                  /\ \A f \in SensitiveFields :
                        decrypt(after[f], after.encryptionSalt, FALSE).kind = "text"
      ]_vars

\* C20: the storage row encryptConfiguration builds from an update has an
\* entry for the salt and for exactly the fields the update holds: a
\* sensitive field, the empty string included, maps to encrypt(value, salt),
\* a plain field to its value, and a field the update lacks has no entry.
C20_StorageShape ==
    \A c \in Calls :
        calls[c].pc = "write" =>
            \A ivs \in [SensitiveFields -> IVs] :
                LET u == calls[c].config
                    salt == calls[c].salt
                    out == encryptConfiguration(u, salt, ivs, FALSE)
                IN  /\ out.kind = "value"
                    /\ out.value.encryptionSalt = Def(salt)
                    /\ \A f \in SensitiveFields :
                          out.value[f] =
                              IF Has(u, f)
                              THEN Def(encrypt(u[f], salt, ivs[f], FALSE))
                              ELSE Undefined
                    /\ \A f \in PlainFields :
                          out.value[f] =
                              IF Has(u, f) THEN Def(u[f]) ELSE Undefined

(***************************************************************************)
(* SocketModeService: one instance of the service, the SocketModeClient    *)
(* objects it creates, and the overlapping calls of initialize(), start()  *)
(* and stop().  Every `await` is a scheduling point.                       *)
(***************************************************************************)
\* SocketModeClient objects one service creates in a run
MaxClients == 3
\* calls of initialize/start/stop that may be in flight at the same time
NumCallers == 2
\* calls of start() and stop() made in one run
MaxServiceCalls == 3

Callers == 1..NumCallers

\* the characters of the strings String.prototype.startsWith is applied to
Chars ==
    "" :> <<>>
    @@ "xapp-" :> <<"x", "a", "p", "p", "-">>
    @@ "xoxb-" :> <<"x", "o", "x", "b", "-">>
    @@ "xapp-1" :> <<"x", "a", "p", "p", "-", "1">>
    @@ "xoxb-1" :> <<"x", "o", "x", "b", "-", "1">>
    @@ "xoxp-1" :> <<"x", "o", "x", "p", "-", "1">>

\* str.startsWith(searchString)
startsWith(str, searchString) ==
    LET s == Chars[str]
        t == Chars[searchString]
    IN  Len(s) >= Len(t) /\ SubSeq(s, 1, Len(t)) = t

\* the Slack variables of process.env the service may be started with
SlackEnvs ==
    [SLACK_APP_TOKEN : {"", "xapp-1"}, SLACK_BOT_TOKEN : {"", "xoxb-1"}]

\* the tokens a stored configuration may hold
StoredAppTokens == {"", "xapp-1", "xoxb-1"}
StoredBotTokens == {"", "xoxb-1", "xoxp-1"}

\* this.socketModeClient === null
NoClient == 0

\* the state of a service after `new SocketModeService()`
Constructed(env) ==
    [socketModeClient |-> NoClient, webClient |-> Null,
     apacheAnswerService |-> Null,
     clients |-> <<>>,
     procs |-> [p \in Callers |-> [op |-> "none", pc |-> "idle",
                                   client |-> NoClient,
                                   result |-> "pending"]],
     fresh |-> TRUE, made |-> 0, env |-> env]

\* config?.f || process.env.NAME  (config: what getBotConfiguration resolved)
ConfigOrEnv(config, f, fromEnv) ==
    IF config # Undefined /\ config.value[f].kind = "text"
       /\ config.value[f].text # ""
    THEN config.value[f].text
    ELSE fromEnv

\* the three guards of initialize(): none of the early returns is taken
TokensAccepted(slackAppToken, slackBotToken) ==
    /\ slackAppToken # "" /\ slackBotToken # ""
    /\ startsWith(slackAppToken, "xapp-")
    /\ startsWith(slackBotToken, "xoxb-")

\* the caller's promise settles
Settle(p, result) ==
    [socket.procs EXCEPT ![p].pc = "done", ![p].result = result]

\* initializeGlobalSocketMode(): the first call on a new service; initialize()
\* runs up to `await storage.getBotConfiguration()`
InitializeCalled(p) ==
    [socket EXCEPT !.fresh = FALSE,
                   !.procs[p] = [op |-> "initialize", pc |-> "config",
                                 client |-> NoClient, result |-> "pending"]]

InitializeGlobal(p) ==
    /\ socket.fresh
    /\ socket.procs[p].pc = "idle"
    /\ socket' = InitializeCalled(p)
    /\ UNCHANGED <<table, calls, now, served, cipher>>
    /\ UNCHANGED <<slash, analytics, startup, log>>

\* POST /api/bot/start: start() returns at once when a client is set, and
\* calls initialize() otherwise
HttpStart(p) ==
    /\ socket.procs[p].pc = "idle"
    /\ socket.made < MaxServiceCalls
    /\ socket' =
         [socket EXCEPT
            !.fresh = FALSE, !.made = @ + 1,
            !.procs[p] =
               IF socket.socketModeClient # NoClient
               THEN [op |-> "start", pc |-> "done", client |-> NoClient,
                     result |-> "returned"]
               ELSE [op |-> "start", pc |-> "config", client |-> NoClient,
                     result |-> "pending"]]
    /\ UNCHANGED <<table, calls, now, served, cipher>>
    /\ UNCHANGED <<slash, analytics, startup, log>>

\* initialize() from the resolution of getBotConfiguration() up to
\* `await this.socketModeClient.start()`
InitializeConfigured(p) ==
    /\ socket.procs[p].pc = "config"
    /\ LET config == getBotConfiguration
       IN  IF config # Undefined /\ config.kind = "error"
           THEN socket' = [socket EXCEPT !.procs = Settle(p, "threw")]
           ELSE LET slackAppToken ==
                       ConfigOrEnv(config, "slackAppToken",
                                   socket.env.SLACK_APP_TOKEN)
                    slackBotToken ==
                       ConfigOrEnv(config, "slackBotToken",
                                   socket.env.SLACK_BOT_TOKEN)
                    k == Len(socket.clients) + 1
                IN  IF ~TokensAccepted(slackAppToken, slackBotToken)
                    THEN socket' = [socket EXCEPT
                                       !.procs = Settle(p, "returned")]
                    ELSE /\ k <= MaxClients
                         /\ socket' =
                              [socket EXCEPT
                                 !.webClient = Text(slackBotToken),
                                 !.apacheAnswerService =
                                     Text(ConfigOrEnv(config,
                                              "apacheAnswerApiUrl",
                                              "https://meta.answer.dev")),
                                 !.socketModeClient = k,
                                 !.clients =
                                     Append(@, [appToken |-> slackAppToken,
                                                state |-> "starting"]),
                                 !.procs[p].pc = "starting",
                                 !.procs[p].client = k]
    /\ UNCHANGED <<table, calls, now, served, cipher>>
    /\ UNCHANGED <<slash, analytics, startup, log>>

\* socketModeClient.start() resolves (connected) or rejects; initialize()
\* rethrows what it caught.  A client that stop() disconnected meanwhile
\* stays disconnected.
ClientStarted(p, connected) ==
    /\ socket.procs[p].pc = "starting"
    /\ LET k == socket.procs[p].client
       IN  socket' =
             [socket EXCEPT
                !.clients[k].state =
                    IF @ = "disconnected" THEN @
                    ELSE IF connected THEN "started" ELSE "failed",
                !.procs = Settle(p, IF connected THEN "returned"
                                    ELSE "threw")]
    /\ UNCHANGED <<table, calls, now, served, cipher>>
    /\ UNCHANGED <<slash, analytics, startup, log>>

\* POST /api/bot/stop: stop() up to `await this.socketModeClient.disconnect()`
HttpStop(p) ==
    /\ socket.procs[p].pc = "idle"
    /\ ~socket.fresh
    /\ socket.made < MaxServiceCalls
    /\ socket' =
         [socket EXCEPT
            !.made = @ + 1,
            !.procs[p] =
               IF socket.socketModeClient # NoClient
               THEN [op |-> "stop", pc |-> "disconnecting",
                     client |-> socket.socketModeClient,
                     result |-> "pending"]
               ELSE [op |-> "stop", pc |-> "done", client |-> NoClient,
                     result |-> "returned"]]
    /\ UNCHANGED <<table, calls, now, served, cipher>>
    /\ UNCHANGED <<slash, analytics, startup, log>>

\* disconnect() resolves and the three fields are cleared, or it rejects and
\* stop() rethrows
StopDisconnected(p, disconnected) ==
    /\ socket.procs[p].pc = "disconnecting"
    /\ LET k == socket.procs[p].client
       IN  socket' =
             IF disconnected
             THEN [socket EXCEPT
                      !.clients[k].state = "disconnected",
                      !.socketModeClient = NoClient,
                      !.webClient = Null,
                      !.apacheAnswerService = Null,
                      !.procs = Settle(p, "returned")]
             ELSE [socket EXCEPT !.procs = Settle(p, "threw")]
    /\ UNCHANGED <<table, calls, now, served, cipher>>
    /\ UNCHANGED <<slash, analytics, startup, log>>

\* the route sends its response (or the startup logs the rejection)
ServiceRespond(p) ==
    /\ socket.procs[p].pc = "done"
    /\ socket' = [socket EXCEPT
                     !.procs[p] = [op |-> "none", pc |-> "idle",
                                   client |-> NoClient,
                                   result |-> "pending"]]
    /\ UNCHANGED <<table, calls, now, served, cipher>>
    /\ UNCHANGED <<slash, analytics, startup, log>>

\* isConnected(), getStatus() and getSocketModeStatus()
isConnected == socket.socketModeClient # NoClient
getStatus ==
    [connected |-> socket.socketModeClient # NoClient,
     hasConfig |-> socket.webClient # Null
                      /\ socket.apacheAnswerService # Null]
getSocketModeStatus == socket.socketModeClient # NoClient

\* a stored configuration holding the two tokens
TokenRow(app, bot) ==
    [SaltedRow EXCEPT !.slackAppToken = encrypt(app, 1, 1, FALSE),
                      !.slackBotToken = encrypt(bot, 1, 1, FALSE)]

\* the legacy row after updateBotConfiguration({workspaceName: "Team B"}):
\* salted, its sensitive columns still in plain text
UpgradedLegacyRow ==
    UpdateSet(LegacyRow,
              Spread(encryptConfiguration(UpdWorkspace, 1,
                                          [f \in EncryptedFields(UpdWorkspace)
                                              |-> 1],
                                          FALSE).value,
                     [updatedAt |-> Def(0)]))

InitSocket ==
    /\ table \in {<<>>, <<UpgradedLegacyRow>>}
                    \cup {<<TokenRow(app, bot)>> :
                            app \in StoredAppTokens,
                            bot \in StoredBotTokens}
    /\ calls = [c \in Calls |-> Idle]
    /\ now = 0
    /\ served = 0
    /\ cipher = NoCipherCall
    /\ socket \in {Constructed(env) : env \in SlackEnvs}
    /\ slash = NoService
    /\ analytics = NoService
    /\ startup = NoService
    /\ log = NoService

NextSocket ==
    \/ \E p \in Callers : InitializeGlobal(p)
    \/ \E p \in Callers : HttpStart(p)
    \/ \E p \in Callers : InitializeConfigured(p)
    \/ \E p \in Callers, connected \in BOOLEAN : ClientStarted(p, connected)
    \/ \E p \in Callers : HttpStop(p)
    \/ \E p \in Callers, disconnected \in BOOLEAN :
           StopDisconnected(p, disconnected)
    \/ \E p \in Callers : ServiceRespond(p)

SpecSocket == InitSocket /\ [][NextSocket]_vars

(***************************************************************************)
(* The slash_commands listener of setupEventHandlers and                   *)
(* handleSlashCommand, one step per `await`.  The check phase of the event *)
(* loop (setImmediate) runs after the listener has returned.               *)
(***************************************************************************)
\* slash_commands events delivered in one run
NumEvents == 2
\* results searchQuestions may return
MaxResults == 1

Events == 1..NumEvents

\* body.command and body.text (as its characters) of the events
Commands == {"/aabot-search", "/aabot-help"}
Texts == {<<>>, <<" ">>, <<" ", "q">>}

\* String.prototype.trim
RECURSIVE trimStart(_)
trimStart(str) ==
    IF str # <<>> /\ Head(str) = " " THEN trimStart(Tail(str)) ELSE str

RECURSIVE trimEnd(_)
trimEnd(str) ==
    IF str # <<>> /\ str[Len(str)] = " "
    THEN trimEnd(SubSeq(str, 1, Len(str) - 1)) ELSE str

trim(str) == trimEnd(trimStart(str))

\* no event delivered yet
NoEvent ==
    [pc |-> "none", command |-> "", text |-> <<>>, acks |-> <<>>,
     immediates |-> 0, hpc |-> "none", runs |-> 0, resultCount |-> 0]

\* the listener is idle, the slack_commands table is empty
NoEvents == [events |-> [e \in Events |-> NoEvent], slackCommands |-> <<>>]

\* the listener runs up to `await ack({})`.  body.user_id is e: each event comes
\* from another user
SlashCommandReceived(e, command, text) ==
    /\ slash.events[e].pc = "none"
    /\ \E k \in DOMAIN socket.clients : socket.clients[k].state = "started"
    /\ slash' = [slash EXCEPT !.events[e].pc = "ack",
                              !.events[e].command = command,
                              !.events[e].text = text]
    /\ UNCHANGED <<table, calls, now, served, cipher>>
    /\ UNCHANGED <<socket, analytics, startup, log>>

\* variant: the command is handed to setImmediate in the catch block too
Acknowledged_SchedulesAlways(e, ok) ==
    /\ slash.events[e].pc = "ack"
    /\ slash' =
         [slash EXCEPT
             !.events[e].acks = Append(@, [response |-> "empty", ok |-> ok]),
             !.events[e].immediates = @ + 1,
             !.events[e].pc = IF ok THEN "returned" ELSE "ackError"]
    /\ UNCHANGED <<table, calls, now, served, cipher>>
    /\ UNCHANGED <<socket, analytics, startup, log>>

\* ack({}) resolves and the listener queues handleSlashCommand with
\* setImmediate, or ack({}) rejects and the catch block acknowledges with
\* the error text
Acknowledged(e, ok) ==
    /\ slash.events[e].pc = "ack"
    /\ slash' =
         [slash EXCEPT
             !.events[e].acks = Append(@, [response |-> "empty", ok |-> ok]),
             !.events[e].immediates = IF ok THEN @ + 1 ELSE @,
             !.events[e].pc = IF ok THEN "returned" ELSE "ackError"]
    /\ UNCHANGED <<table, calls, now, served, cipher>>
    /\ UNCHANGED <<socket, analytics, startup, log>>

\* the second ack, of the catch block, resolves or rejects (logged only)
ErrorAcknowledged(e, ok) ==
    /\ slash.events[e].pc = "ackError"
    /\ slash' =
         [slash EXCEPT
             !.events[e].acks = Append(@, [response |-> "error", ok |-> ok]),
             !.events[e].pc = "returned"]
    /\ UNCHANGED <<table, calls, now, served, cipher>>
    /\ UNCHANGED <<socket, analytics, startup, log>>

\* the setImmediate callback: handleSlashCommand(body) up to its first await
\* (sendErrorMessage for an empty query, the search notification otherwise)
HandleSlashCommand(e) ==
    /\ slash.events[e].immediates > 0
    /\ slash.events[e].hpc = "none"
    /\ slash' =
         [slash EXCEPT
             !.events[e].immediates = @ - 1,
             !.events[e].runs = @ + 1,
             !.events[e].hpc =
                 IF slash.events[e].command # "/aabot-search" THEN "done"
                 ELSE IF trim(slash.events[e].text) = <<>> THEN "errorMessage"
                 ELSE "notify"]
    /\ UNCHANGED <<table, calls, now, served, cipher>>
    /\ UNCHANGED <<socket, analytics, startup, log>>

\* the fetch of the search notification settles (a rejection is logged);
\* without a search service the handler sends an error message, otherwise
\* it awaits searchQuestions
Notified(e) ==
    /\ slash.events[e].hpc = "notify"
    /\ slash' =
         [slash EXCEPT
             !.events[e].hpc =
                 IF socket.apacheAnswerService = Null THEN "errorMessage"
                 ELSE "search"]
    /\ UNCHANGED <<table, calls, now, served, cipher>>
    /\ UNCHANGED <<socket, analytics, startup, log>>

\* searchQuestions resolves with `count` results, or rejects (the API answers
\* with an error status or with HTML) and the outer catch sends an error
\* message
Searched(e, ok, count) ==
    /\ slash.events[e].hpc = "search"
    /\ slash' =
         [slash EXCEPT
             !.events[e].resultCount = IF ok THEN count ELSE 0,
             !.events[e].hpc = IF ok THEN "log" ELSE "errorMessage"]
    /\ UNCHANGED <<table, calls, now, served, cipher>>
    /\ UNCHANGED <<socket, analytics, startup, log>>

\* storage.logSlackQuestion inserts the row; then "No results found" is sent,
\* or formatSearchResults awaits getBotConfiguration
LoggedSlackQuestion(e) ==
    /\ slash.events[e].hpc = "log"
    /\ slash' =
         [slash EXCEPT
             !.slackCommands =
                 Append(@, [commandName |-> "/aabot-search", userId |-> e,
                            query |-> trim(slash.events[e].text),
                            resultCount |-> slash.events[e].resultCount]),
             !.events[e].hpc =
                 IF slash.events[e].resultCount = 0 THEN "errorMessage"
                 ELSE "format"]
    /\ UNCHANGED <<table, calls, now, served, cipher>>
    /\ UNCHANGED <<socket, analytics, startup, log>>

\* formatSearchResults: getBotConfiguration resolves and the results are
\* posted, or it rejects and the outer catch sends an error message
Formatted(e) ==
    /\ slash.events[e].hpc = "format"
    /\ LET config == getBotConfiguration
       IN  slash' =
             [slash EXCEPT
                 !.events[e].hpc =
                     IF config # Undefined /\ config.kind = "error"
                     THEN "errorMessage" ELSE "respond"]
    /\ UNCHANGED <<table, calls, now, served, cipher>>
    /\ UNCHANGED <<socket, analytics, startup, log>>

\* the fetch that posts the results settles: ok, not ok or rejected, each of
\* them logged only
ResultsSent(e) ==
    /\ slash.events[e].hpc = "respond"
    /\ slash' = [slash EXCEPT !.events[e].hpc = "done"]
    /\ UNCHANGED <<table, calls, now, served, cipher>>
    /\ UNCHANGED <<socket, analytics, startup, log>>

\* the fetch of sendErrorMessage settles (a rejection is logged) and
\* handleSlashCommand returns
ErrorMessageSent(e) ==
    /\ slash.events[e].hpc = "errorMessage"
    /\ slash' = [slash EXCEPT !.events[e].hpc = "done"]
    /\ UNCHANGED <<table, calls, now, served, cipher>>
    /\ UNCHANGED <<socket, analytics, startup, log>>

\* the service after an initialize() that found both tokens and connected
Connected(env) ==
    [Constructed(env) EXCEPT
        !.socketModeClient = 1, !.webClient = Text("xoxb-1"),
        !.apacheAnswerService = Text("https://meta.answer.dev"),
        !.clients = <<[appToken |-> "xapp-1", state |-> "started"]>>,
        !.fresh = FALSE]

InitSlash ==
    /\ table = <<TokenRow("xapp-1", "xoxb-1")>>
    /\ calls = [c \in Calls |-> Idle]
    /\ now = 0
    /\ served = 0
    /\ cipher = NoCipherCall
    /\ socket = Connected([SLACK_APP_TOKEN |-> "", SLACK_BOT_TOKEN |-> ""])
    /\ slash = NoEvents
    /\ analytics = NoService
    /\ startup = NoService
    /\ log = NoService

NextSlash ==
    \/ \E e \in Events, command \in Commands, text \in Texts :
           SlashCommandReceived(e, command, text)
    \/ \E e \in Events, ok \in BOOLEAN : Acknowledged(e, ok)
    \/ \E e \in Events, ok \in BOOLEAN : ErrorAcknowledged(e, ok)
    \/ \E e \in Events : HandleSlashCommand(e)
    \/ \E e \in Events : Notified(e)
    \/ \E e \in Events, ok \in BOOLEAN, count \in 0..MaxResults :
           Searched(e, ok, count)
    \/ \E e \in Events : LoggedSlackQuestion(e)
    \/ \E e \in Events : Formatted(e)
    \/ \E e \in Events : ResultsSent(e)
    \/ \E e \in Events : ErrorMessageSent(e)
    \/ \E p \in Callers : HttpStop(p)
    \/ \E p \in Callers, disconnected \in BOOLEAN :
           StopDisconnected(p, disconnected)
    \/ \E p \in Callers : ServiceRespond(p)

SpecSlash == InitSlash /\ [][NextSlash]_vars

\* C21: for every slash_commands event, handleSlashCommand is queued (or run)
\* at most once, and only when the first acknowledgment of the event is the
\* empty response and it succeeded; an event whose ack({}) failed is never
\* handed to handleSlashCommand
C21_AckBeforeProcessing ==
    \A e \in Events :
        LET ev == slash.events[e]
            scheduled == ev.immediates + ev.runs
        IN  /\ scheduled <= 1
            /\ ev.hpc # "none" => ev.runs = 1
            /\ scheduled > 0 =>
                   /\ ev.acks # <<>>
                   /\ ev.acks[1] = [response |-> "empty", ok |-> TRUE]
            /\ (ev.acks # <<>> /\ ~ev.acks[1].ok) =>
                   scheduled = 0 /\ ev.hpc = "none"

\* C21 witness: one command was acknowledged and handled to the end, while the
\* acknowledgment of another one failed and its listener has returned
C21_Witness ==
    \E e, f \in Events :
        /\ slash.events[e].acks = <<[response |-> "empty", ok |-> TRUE]>>
        /\ slash.events[e].runs = 1 /\ slash.events[e].hpc = "done"
        /\ slash.events[f].acks # <<>> /\ ~slash.events[f].acks[1].ok
        /\ slash.events[f].pc = "returned"

\* the rows of slack_commands written for event e
LoggedFor(e) ==
    {i \in DOMAIN slash.slackCommands : slash.slackCommands[i].userId = e}

\* C22: once handleSlashCommand has returned, an /aabot-search command with
\* a non-empty query has exactly one row in slack_commands, and a command
\* with another name or with an empty query has none; no command ever has
\* more than one row
C22_LoggedExactlyOnce ==
    \A e \in Events :
        LET ev == slash.events[e]
        IN  /\ Cardinality(LoggedFor(e)) <= 1
            /\ ev.hpc = "done" =>
                   IF ev.command = "/aabot-search" /\ trim(ev.text) # <<>>
                   THEN Cardinality(LoggedFor(e)) = 1
                   ELSE Cardinality(LoggedFor(e)) = 0

\* the step is the part of initialize() that follows getBotConfiguration()
InitializeChecksTokens(p) ==
    socket.procs[p].pc = "config" /\ socket'.procs[p].pc # "config"

\* the token initialize() finds for a field: the stored one when the
\* configuration could be read and holds it, otherwise the environment's
AvailableToken(f, fromEnv) ==
    LET config == getBotConfiguration
    IN  IF config # Undefined /\ config.kind = "value"
           /\ config.value[f].kind = "text" /\ config.value[f].text # ""
        THEN config.value[f].text
        ELSE fromEnv

\* C23: initialize() creates and starts a SocketModeClient only when an app
\* token and a bot token are available, the first starting with "xapp-" and
\* the second with "xoxb-"; in every other case it returns without error and
\* leaves socketModeClient, webClient and apacheAnswerService as they were
\* (null on a service that was not started, isConnected() false)
C23_ClientOnlyWithValidTokens ==
    [][\A p \in Callers :
          InitializeChecksTokens(p) =>
              LET app == AvailableToken("slackAppToken",
                                        socket.env.SLACK_APP_TOKEN)
                  bot == AvailableToken("slackBotToken",
                                        socket.env.SLACK_BOT_TOKEN)
                  valid == /\ app # "" /\ bot # ""
                           /\ startsWith(app, "xapp-")
                           /\ startsWith(bot, "xoxb-")
                  created == Len(socket'.clients) > Len(socket.clients)
              IN  /\ created => valid
                  /\ ~valid =>
                        /\ ~created
                        /\ socket'.procs[p].result = "returned"
                        /\ socket'.socketModeClient = socket.socketModeClient
                        /\ socket'.webClient = socket.webClient
                        /\ socket'.apacheAnswerService
                               = socket.apacheAnswerService
                        /\ (socket.socketModeClient = NoClient
                               => ~isConnected')
      ]_vars

(***************************************************************************)
(* security.ts: sanitiseLogData and auditLog.  A JSON value is a string    *)
(* (Text), null, or an object, kept as the function from its own keys to   *)
(* their values.                                                           *)
(***************************************************************************)
\* nesting depth of the objects handed to the loggers
MaxDepth == 2
\* keys of one object
MaxKeys == 2

Object(props) == [kind |-> "object", props |-> props]

\* const sensitiveFields = [...]
sensitiveFields ==
    {"password", "token", "key", "secret", "credential", "authorization",
     "auth", "slack_bot_token", "api_key"}

\* the keys and the strings of the logged objects
LogKeys == {"token", "slackBotToken", "details", "workspaceName"}
LogStrings == {Text("xoxb-1"), Text("Apache Team")}

ObjectsOver(values) ==
    {Object(props) :
        props \in UNION {[keys -> values] :
                            keys \in {K \in SUBSET LogKeys :
                                         Cardinality(K) <= MaxKeys}}}

RECURSIVE JsonValues(_)
JsonValues(depth) ==
    IF depth = 0 THEN LogStrings
    ELSE LogStrings \cup ObjectsOver(JsonValues(depth - 1))

\* sanitiseLogData(data): a shallow copy in which the listed keys are
\* overwritten, then the values that are objects are sanitised in turn
RECURSIVE sanitiseLogData(_)
sanitiseLogData(data) ==
    IF data.kind # "object" THEN data
    ELSE LET sanitised ==
                 [key \in DOMAIN data.props |->
                     IF key \in sensitiveFields THEN Text("[REDACTED]")
                     ELSE data.props[key]]
         IN  Object([key \in DOMAIN sanitised |->
                        IF sanitised[key].kind = "object"
                        THEN sanitiseLogData(sanitised[key])
                        ELSE sanitised[key]])

\* nothing logged yet; `details` is what the next auditLog call is given
NoLog(details) == [details |-> details, console |-> <<>>]

\* auditLog(event, details): the entry handed to console.log
AuditLog(event) ==
    /\ log # NoService
    /\ log.console = <<>>
    /\ log' = [log EXCEPT
                  !.console = <<[event |-> event, ip |-> "unknown",
                                 userAgent |-> "unknown",
                                 details |-> sanitiseLogData(log.details)]>>]
    /\ UNCHANGED <<table, calls, now, served, cipher>>
    /\ UNCHANGED <<socket, slash, analytics, startup>>

InitLog ==
    /\ table = <<>>
    /\ calls = [c \in Calls |-> Idle]
    /\ now = 0
    /\ served = 0
    /\ cipher = NoCipherCall
    /\ socket = NoService
    /\ slash = NoService
    /\ analytics = NoService
    /\ startup = NoService
    /\ log \in {NoLog(details) : details \in ObjectsOver(JsonValues(MaxDepth - 1))}

NextLog ==
    \/ \E event \in {"CONFIG_UPDATE"} : AuditLog(event)

SpecLog == InitLog /\ [][NextLog]_vars

\* the keys whose values are tokens, keys, secrets or credentials
SecretKeys ==
    sensitiveFields \cup {"slackBotToken", "slackAppToken",
                          "slackSigningSecret", "apacheAnswerApiKey"}

\* every value under a secret key is '[REDACTED]', at every depth
RECURSIVE Redacted(_)
Redacted(data) ==
    data.kind = "object" =>
        \A key \in DOMAIN data.props :
            /\ key \in SecretKeys => data.props[key] = Text("[REDACTED]")
            /\ Redacted(data.props[key])

\* C24: in every entry auditLog writes, the value of every field named after
\* a token, key, secret or credential (the configuration fields
\* slackBotToken, slackAppToken, slackSigningSecret and apacheAnswerApiKey
\* among them) is '[REDACTED]', at any nesting depth
C24_SecretsRedacted ==
    (log # NoService /\ log.console # <<>>) => Redacted(log.console[1].details)

\* the clients of the service that were created and not disconnected, and
\* that are connecting or connected
LiveClients ==
    {k \in DOMAIN socket.clients :
        socket.clients[k].state \in {"starting", "started"}}

\* C25: under any interleaving of start() calls (and of the startup
\* initialize()), the service never has more than one SocketModeClient that
\* was created and started and has not been stopped since
C25_AtMostOneClient == Cardinality(LiveClients) <= 1

\* C26: isConnected(), getStatus().connected and getSocketModeStatus() are
\* true only while the service holds a client whose start() has completed
\* successfully and that stop() has not disconnected since; in particular
\* they are false once the start of the client has failed
C26_ConnectedMeansStarted ==
    (isConnected \/ getStatus.connected \/ getSocketModeStatus) =>
        /\ socket.socketModeClient \in DOMAIN socket.clients
        /\ socket.clients[socket.socketModeClient].state = "started"

(***************************************************************************)
(* PATCH and PUT /api/bot/config with bodies that carry keys outside the   *)
(* ConfigurationUpdate interface, on an empty table, a legacy row or a     *)
(* salted row.                                                             *)
(***************************************************************************)
\* the values a client picks for the columns it does not own
ClientId == "uuid-client"
ClientSalt == 99
ClientTime == 9

UpdForged ==
    [workspaceName |-> "Team B", id |-> ClientId,
     encryptionSalt |-> ClientSalt, createdAt |-> ClientTime,
     role |-> "admin"]
UpdForgedToken ==
    [slackBotToken |-> "xoxb-BBB", id |-> ClientId,
     encryptionSalt |-> ClientSalt]

ForgedBodies == {UpdForged, UpdForgedToken, UpdWorkspace}

InitForged ==
    /\ table \in {<<>>, <<LegacyRow>>, <<SaltedRow>>}
    /\ calls = [c \in Calls |-> Idle]
    /\ now = 0
    /\ served = 0
    /\ cipher = NoCipherCall
    /\ InitService

NextForged ==
    \/ \E c \in Calls, body \in ForgedBodies : HttpPatchConfig(c, body)
    \/ \E c \in Calls, body \in ForgedBodies : HttpPutConfig(c, body)
    \/ \E c \in Calls : UpdateGetExisting(c)
    \/ \E c \in Calls : UpdateCreateDefault(c)
    \/ \E c \in Calls : UpdateSelectRaw(c)
    \/ \E c \in Calls : UpdateWrite(c)
    \/ \E c \in Calls : Respond(c)
    \/ Tick

SpecForged == InitForged /\ [][NextForged]_vars

\* the step ends the updateBotConfiguration call of slot c with an error
UpdateFails(c) ==
    /\ calls[c].op = "update"
    /\ calls[c].pc \in {"get", "create", "raw", "write"}
    /\ calls'[c].pc = "done"
    /\ calls'[c].result.kind = "error"

\* C27: a call of updateBotConfiguration that fails with an error (in
\* the lookup, the encryption, or the decryption of the returned row) leaves
\* the stored rows as they were when its failing step began
C27_UpdateAllOrNothing ==
    [][\A c \in Calls : UpdateFails(c) => table' = table]_vars

\* C28: whatever keys the body of a PATCH or PUT /api/bot/config carries, the
\* UPDATE leaves the id and createdAt of the record as they were and stamps
\* the salt the storage chose (the stored one, or a generated one); no row
\* ever holds the id, the salt or the creation time picked by the client, or
\* a column outside the schema
C28_OnlyRecognizedFields ==
    [][/\ \A c \in Calls :
            UpdateWrites(c) =>
                LET id == calls[c].existingId
                    before == RowById(table, id)
                    after == RowById(table', id)
                IN  /\ HasRow(table', id)
                    /\ after.id = before.id
                    /\ after.createdAt = before.createdAt
                    /\ after.encryptionSalt = calls[c].salt
                    /\ calls[c].salt # ClientSalt
       /\ \A i \in DOMAIN table' :
            /\ DOMAIN table'[i] = botConfigurations
            /\ table'[i].id # ClientId
            /\ table'[i].encryptionSalt # ClientSalt
            /\ table'[i].createdAt # ClientTime
      ]_vars

\* C28 witness: a PATCH whose body names an id, a salt and a creation time
\* has been written and answered with the updated record
C28_Witness ==
    \E c \in Calls :
        /\ calls[c].pc = "done" /\ calls[c].config = UpdForged
        /\ calls[c].result.kind = "value"
        /\ calls[c].result.value.workspaceName = "Team B"
        /\ \E i \in DOMAIN table : table[i].workspaceName = "Team B"

(***************************************************************************)
(* The bot_analytics table: getBotAnalytics, updateBotAnalytics, the       *)
(* increment methods and POST /api/vote.  The storage calls of this        *)
(* specification run one after the other (each is one action); the reads   *)
(* of GET /api/bot/analytics fall between the calls of a vote request.     *)
(***************************************************************************)
\* POST /api/vote requests of one run
MaxVotes == 3
\* GET /api/bot/analytics requests of one run
MaxReads == 3

\* the analyticsData of getBotAnalytics: every slack_commands row is of today
AnalyticsData(commands) ==
    [totalSearches |-> Len(commands),
     totalVotes |-> 0,
     activeUsers |-> Cardinality({commands[i].userId : i \in DOMAIN commands}),
     searchesToday |-> Len(commands),
     apiCalls |-> Len(commands)]

\* update(botAnalytics).set(values).where(id = existing.id), or the insert
\* into the empty table; the result is the table and the returned row
WriteAnalytics(rows, values) ==
    LET row == IF rows = <<>>
               THEN [k \in DOMAIN AnalyticsData(<<>>) |->
                        IF k \in DOMAIN values THEN values[k] ELSE 0]
               ELSE [k \in DOMAIN rows[1] |->
                        IF k \in DOMAIN values THEN values[k] ELSE rows[1][k]]
    IN  [rows |-> IF rows = <<>> THEN <<row>> ELSE [rows EXCEPT ![1] = row],
         returned |-> row]

\* getBotAnalytics(): recomputes the statistics and writes them to the row
getBotAnalytics(rows) == WriteAnalytics(rows, AnalyticsData(slash.slackCommands))

\* updateBotAnalytics(analytics): `existing` is what getBotAnalytics returns
updateBotAnalytics(rows, values) ==
    WriteAnalytics(getBotAnalytics(rows).rows, values)

\* incrementVoteCount()
incrementVoteCount(rows) ==
    LET existing == getBotAnalytics(rows)
    IN  updateBotAnalytics(existing.rows,
                           [totalVotes |-> existing.returned.totalVotes + 1])

\* incrementApiCallCount()
incrementApiCallCount(rows) ==
    LET existing == getBotAnalytics(rows)
    IN  updateBotAnalytics(existing.rows,
                           [apiCalls |-> existing.returned.apiCalls + 1])

\* the table as the server finds it, no vote request in flight
NoVotes(rows) ==
    [botAnalytics |-> rows, pc |-> "idle", status |-> 0,
     posted |-> 0, incremented |-> 0, reads |-> 0,
     reported |-> [totalVotes |-> 0, after |-> 0]]

\* POST /api/vote up to `await storage.incrementVoteCount()`: 500 without a
\* configuration (or when it cannot be read), 403 when voting is disabled
PostVote ==
    /\ analytics.pc = "idle"
    /\ analytics.posted < MaxVotes
    /\ LET config == getBotConfiguration
       IN  analytics' =
             [analytics EXCEPT
                 !.posted = @ + 1,
                 !.pc = IF config.kind = "value" /\ config.value.enableVoting
                        THEN "count" ELSE "done",
                 !.status = IF config.kind # "value" THEN 500
                            ELSE IF ~config.value.enableVoting THEN 403
                            ELSE 0]
    /\ UNCHANGED <<table, calls, now, served, cipher>>
    /\ UNCHANGED <<socket, slash, startup, log>>

\* await storage.incrementVoteCount()
VoteCounted ==
    /\ analytics.pc = "count"
    /\ analytics' =
         [analytics EXCEPT
             !.botAnalytics = incrementVoteCount(analytics.botAnalytics).rows,
             !.incremented = @ + 1,
             !.pc = "api"]
    /\ UNCHANGED <<table, calls, now, served, cipher>>
    /\ UNCHANGED <<socket, slash, startup, log>>

\* await storage.incrementApiCallCount()
ApiCallCounted ==
    /\ analytics.pc = "api"
    /\ analytics' =
         [analytics EXCEPT
             !.botAnalytics =
                 incrementApiCallCount(analytics.botAnalytics).rows,
             !.pc = "vote"]
    /\ UNCHANGED <<table, calls, now, served, cipher>>
    /\ UNCHANGED <<socket, slash, startup, log>>

\* voteUp / voteDown resolves (200) or rejects (500)
VoteSent(ok) ==
    /\ analytics.pc = "vote"
    /\ analytics' = [analytics EXCEPT !.pc = "done",
                                      !.status = IF ok THEN 200 ELSE 500]
    /\ UNCHANGED <<table, calls, now, served, cipher>>
    /\ UNCHANGED <<socket, slash, startup, log>>

\* the response of the vote request has been sent
VoteResponded ==
    /\ analytics.pc = "done"
    /\ analytics' = [analytics EXCEPT !.pc = "idle", !.status = 0]
    /\ UNCHANGED <<table, calls, now, served, cipher>>
    /\ UNCHANGED <<socket, slash, startup, log>>

\* GET /api/bot/analytics: storage.getBotAnalytics(), and what it reports
ReadAnalytics ==
    /\ analytics # NoService
    /\ analytics.reads < MaxReads
    /\ LET out == getBotAnalytics(analytics.botAnalytics)
       IN  analytics' =
             [analytics EXCEPT
                 !.botAnalytics = out.rows,
                 !.reads = @ + 1,
                 !.reported = [totalVotes |-> out.returned.totalVotes,
                               after |-> analytics.incremented]]
    /\ UNCHANGED <<table, calls, now, served, cipher>>
    /\ UNCHANGED <<socket, slash, startup, log>>

\* one logged search of user 1
OneCommand ==
    <<[commandName |-> "/aabot-search", userId |-> 1, query |-> <<"q">>,
       resultCount |-> 1]>>

InitVotes ==
    /\ table \in {<<>>, <<SaltedRow>>,
                  <<[SaltedRow EXCEPT !.enableVoting = FALSE]>>}
    /\ calls = [c \in Calls |-> Idle]
    /\ now = 0
    /\ served = 0
    /\ cipher = NoCipherCall
    /\ socket = NoService
    /\ slash \in {[NoEvents EXCEPT !.slackCommands = commands] :
                     commands \in {<<>>, OneCommand}}
    /\ analytics \in {NoVotes(<<>>),
                      NoVotes(getBotAnalytics(<<>>).rows)}
    /\ startup = NoService
    /\ log = NoService

NextVotes ==
    \/ PostVote
    \/ VoteCounted
    \/ ApiCallCounted
    \/ \E ok \in BOOLEAN : VoteSent(ok)
    \/ VoteResponded
    \/ ReadAnalytics

SpecVotes == InitVotes /\ [][NextVotes]_vars

\* C29: starting from totalVotes = 0, every getBotAnalytics read reports as
\* totalVotes the number of incrementVoteCount calls that succeeded before it
C29_VotesAccumulate ==
    (analytics # NoService /\ analytics.reads > 0) =>
        analytics.reported.totalVotes = analytics.reported.after

(***************************************************************************)
(* dbHealthCheck.ts: waitForDatabaseReady, called by a client with any     *)
(* maxRetries or by the server.listen callback with the default.           *)
(***************************************************************************)
\* largest maxRetries a direct caller passes
MaxRetries == 10
\* maxRetries: number = 10
DefaultMaxRetries == 10

\* the call has not begun; production is NODE_ENV === 'production'
NotStarted(caller, production, maxRetries) ==
    [caller |-> caller, production |-> production, maxRetries |-> maxRetries,
     pc |-> "start", attempt |-> 0, checks |-> <<>>, waits |-> {},
     result |-> "pending", socketMode |-> FALSE]

\* `return value` of waitForDatabaseReady ("true" or "false"); the listen
\* callback resumes after its await and calls initializeGlobalSocketMode()
\* whatever the value
Returns(value, checks, waits) ==
    /\ startup' = [startup EXCEPT
                      !.pc = "done", !.result = value,
                      !.checks = checks, !.waits = waits,
                      !.socketMode = (startup.caller = "listen")]
    /\ socket' = IF startup.caller = "listen" THEN InitializeCalled(1)
                 ELSE socket

\* the loop header `attempt <= maxRetries` with the value attempt now has
LoopFrom(attempt, checks, waits) ==
    IF attempt <= startup.maxRetries
    THEN /\ startup' = [startup EXCEPT !.pc = "check", !.attempt = attempt,
                                       !.checks = checks, !.waits = waits]
         /\ socket' = socket
    ELSE Returns("false", checks, waits)

\* the server.listen callback: outside production it initializes Socket Mode
\* at once, in production it first awaits waitForDatabaseReady()
Listening ==
    /\ startup # NoService
    /\ startup.pc = "start" /\ startup.caller = "listen"
    /\ IF startup.production
       THEN LoopFrom(1, <<>>, {})
       ELSE /\ startup' = [startup EXCEPT !.pc = "done", !.socketMode = TRUE]
            /\ socket' = InitializeCalled(1)
    /\ UNCHANGED <<table, calls, now, served, cipher>>
    /\ UNCHANGED <<slash, analytics, log>>

\* waitForDatabaseReady(maxRetries) called by another client
WaitForDatabaseReady ==
    /\ startup # NoService
    /\ startup.pc = "start" /\ startup.caller = "direct"
    /\ LoopFrom(1, <<>>, {})
    /\ UNCHANGED <<table, calls, now, served, cipher>>
    /\ UNCHANGED <<slash, analytics, log>>

\* variant: the delay is awaited after every failed check, the last included
HealthChecked_AlwaysWaits(isHealthy) ==
    /\ startup # NoService
    /\ startup.pc = "check"
    /\ LET checks == Append(startup.checks, isHealthy)
       IN  IF isHealthy
           THEN Returns("true", checks, startup.waits)
           ELSE /\ startup' = [startup EXCEPT !.pc = "wait",
                                              !.checks = checks]
                /\ socket' = socket
    /\ UNCHANGED <<table, calls, now, served, cipher>>
    /\ UNCHANGED <<slash, analytics, log>>

\* performDatabaseHealthCheck() resolves: true returns at once; false waits
\* when another attempt is left, and otherwise leaves the loop
HealthChecked(isHealthy) ==
    /\ startup # NoService
    /\ startup.pc = "check"
    /\ LET checks == Append(startup.checks, isHealthy)
       IN  IF isHealthy
           THEN Returns("true", checks, startup.waits)
           ELSE IF startup.attempt < startup.maxRetries
           THEN /\ startup' = [startup EXCEPT !.pc = "wait",
                                              !.checks = checks]
                /\ socket' = socket
           ELSE LoopFrom(startup.attempt + 1, checks, startup.waits)
    /\ UNCHANGED <<table, calls, now, served, cipher>>
    /\ UNCHANGED <<slash, analytics, log>>

\* the timer of retryDelay fires: attempt++ and the loop header
Waited ==
    /\ startup # NoService
    /\ startup.pc = "wait"
    /\ LoopFrom(startup.attempt + 1, startup.checks,
                startup.waits \cup {startup.attempt})
    /\ UNCHANGED <<table, calls, now, served, cipher>>
    /\ UNCHANGED <<slash, analytics, log>>

InitStartup ==
    /\ table = <<>>
    /\ calls = [c \in Calls |-> Idle]
    /\ now = 0
    /\ served = 0
    /\ cipher = NoCipherCall
    /\ socket = Constructed([SLACK_APP_TOKEN |-> "", SLACK_BOT_TOKEN |-> ""])
    /\ slash = NoService
    /\ analytics = NoService
    /\ log = NoService
    /\ startup \in
          {NotStarted("listen", production, DefaultMaxRetries) :
              production \in BOOLEAN}
          \cup {NotStarted("direct", TRUE, maxRetries) :
                   maxRetries \in 0..MaxRetries}

NextStartup ==
    \/ Listening
    \/ WaitForDatabaseReady
    \/ \E isHealthy \in BOOLEAN : HealthChecked(isHealthy)
    \/ Waited

\* every health check settles and every timer fires
SpecStartup ==
    InitStartup /\ [][NextStartup]_vars /\ WF_vars(NextStartup)

\* C30: waitForDatabaseReady(maxRetries) performs at most maxRetries health
\* checks and none after a successful one; it returns true right after the
\* first successful check, false exactly when maxRetries checks have all
\* failed; it has waited after every failed attempt but the last; the
\* listen callback then initializes Socket Mode whatever was returned; and
\* every call returns
C30_TerminatesWithinRetries ==
    /\ [](startup # NoService =>
            LET n == Len(startup.checks)
                returned == startup.pc = "done" /\ startup.result # "pending"
                allFailed == /\ n = startup.maxRetries
                             /\ \A i \in 1..n : ~startup.checks[i]
            IN  /\ n <= startup.maxRetries
                /\ \A i \in 1..(n - 1) : ~startup.checks[i]
                /\ (returned /\ startup.result = "true") =>
                       n >= 1 /\ startup.checks[n]
                /\ returned => (startup.result = "false" <=> allFailed)
                /\ startup.waits \subseteq 1..(startup.maxRetries - 1)
                /\ returned => startup.waits = 1..(n - 1)
                /\ (startup.caller = "listen" /\ startup.pc = "done") =>
                       /\ startup.socketMode
                       /\ socket.procs[1].op = "initialize")
    /\ <>(startup # NoService /\ startup.pc = "done")

\* C30 witness: in production every one of the default ten checks failed,
\* with nine waits between them, and the startup went on to Socket Mode
C30_Witness ==
    /\ startup # NoService
    /\ startup.caller = "listen" /\ startup.production
    /\ startup.pc = "done" /\ startup.result = "false"
    /\ Len(startup.checks) = DefaultMaxRetries
    /\ startup.waits = 1..(DefaultMaxRetries - 1)
    /\ startup.socketMode /\ socket.procs[1].pc = "config"

====
